---- MODULE Spec2Model ----
(***************************************************************************)
(* Model of the Report & Export Engine (class ExportSystem, its           *)
(* ExportBuilder and helpers) of the access-request tracker.              *)
(*                                                                         *)
(* The live request collection is a sequence of request records in Map    *)
(* insertion order.  The engine works on references to the live request   *)
(* objects, so a filtered sequence is a sequence of indices into the      *)
(* collection.  Timestamps are Date objects, modelled as positive         *)
(* integers (milliseconds); NoDate models null / unset.                   *)
(***************************************************************************)
EXTENDS Integers, Sequences, FiniteSets, TLC

VARIABLES
    requests,       \* approvalSystem.requests, in Map insertion order
    exportFormats,  \* this.exportFormats
    templates,      \* this.templates: the template set registered under each name
    libraries,      \* the browser globals present: window, window.ExcelJS, window.jsPDF
    pc,             \* position of the current call
    call,           \* arguments of the current call
    stages,         \* intermediate sequences of getExportData (filtered, sorted)
    data,           \* value returned by getExportData
    result,         \* value returned by the operation, NoResult before it returns
    error,          \* error thrown by the operation, NoError if none
    trace,          \* components invoked by the current call, in order
    started,        \* the live collection as it was when the current call began
    builder,        \* this.options of the ExportBuilder
    chain,          \* the configuration calls made on the builder, in order
    handles,        \* the object URLs created so far: "live" or "revoked"
    manager,        \* the RequestManager: this.requests, localStorage, its pending load
    session         \* the AuthManager: this.currentUser, localStorage, the clock

vars ==
    <<requests, exportFormats, templates, libraries, pc, call, stages, data, result, error,
      trace, started, builder, chain, handles, manager, session>>

\* What the constructor sets up and no export changes.
config == <<exportFormats, templates, libraries>>

\* The state of the callers of the engine: the fluent builder and the browser.
client == <<builder, chain, handles, manager, session>>

(***************************************************************************)
(* Bounds of the model.                                                    *)
(***************************************************************************)
MaxRequests == 3        \* requests in a collection that differs in one attribute
MaxFilterRequests == 2  \* requests in a collection that differs in every filtered attribute
MaxTime == 3            \* submittedAt values are 1..MaxTime
MaxLimit == 2           \* filters.limit values are 0..MaxLimit
MaxEvents == 2          \* events of one kind owned by a request

(***************************************************************************)
(* JavaScript values.                                                      *)
(***************************************************************************)
NoDate == 0             \* null / unset timestamp (falsy)
Undef == -1             \* undefined, and NaN after a failed conversion

Requesters == {"alice", "bob"}
Workflows == {"wf1", "wf2"}
Statuses == {"pending", "approved", "rejected"}

\* Object.assign-like merge of two option objects with disjoint keys.
Merge(f, g) == f @@ g

Has(obj, key) == key \in DOMAIN obj

\* if (filters.<key>) for a string-valued key
TruthyStr(obj, key) == Has(obj, key) /\ obj[key] # ""

\* if (filters.<key>) for a number-valued key
TruthyNum(obj, key) == Has(obj, key) /\ obj[key] # 0

RECURSIVE Concat(_)
Concat(seqs) ==
    IF seqs = <<>> THEN <<>> ELSE Head(seqs) \o Concat(Tail(seqs))

Reverse(s) == [i \in 1..Len(s) |-> s[Len(s) + 1 - i]]

Take(s, n) == SubSeq(s, 1, IF n < Len(s) THEN n ELSE Len(s))

Range(s) == {s[i] : i \in 1..Len(s)}

\* All orderings of the elements of the sequence s (s has no duplicates).
RECURSIVE Perms(_)
Perms(s) ==
    IF s = <<>> THEN {<<>>}
    ELSE UNION {{<<s[i]>> \o p :
                    p \in Perms(SubSeq(s, 1, i - 1) \o SubSeq(s, i + 1, Len(s)))} :
                i \in 1..Len(s)}

(***************************************************************************)
(* Request records.                                                        *)
(***************************************************************************)
\* The events of a kind a request owns: the k-th approval, rejection or
\* comment of request i.
Events(kind, i, n) ==
    [k \in 1..n |->
        CASE kind = "approvals" ->
                [approverId |-> "m" \o ToString(k), level |-> k - 1,
                 approvedAt |-> 10 * i + k, comment |-> "ok"]
          [] kind = "rejections" ->
                [approverId |-> "m" \o ToString(k), level |-> k - 1,
                 rejectedAt |-> 10 * i + k, reason |-> "no"]
          [] kind = "comments" ->
                [user |-> "u" \o ToString(k), type |-> "note",
                 timestamp |-> 10 * i + k, text |-> "t"]]

Metadata(status, submittedAt, completedAt, level, i, nA, nR, nC) ==
    [status |-> status, submittedAt |-> submittedAt, completedAt |-> completedAt,
     currentLevel |-> level,
     approvals |-> Events("approvals", i, nA),
     rejections |-> Events("rejections", i, nR),
     comments |-> Events("comments", i, nC)]

\* A request without the optional workflow / data sub-objects.
Request(i, requester, workflowId, meta) ==
    [id |-> "r" \o ToString(i), requester |-> requester, subject |-> "subject",
     workflowId |-> workflowId, metadata |-> meta]

(***************************************************************************)
(* Query Engine: getExportData.                                            *)
(***************************************************************************)
AllIndices(reqs) == [i \in 1..Len(reqs) |-> i]

\* submitted >= new Date(start) && submitted <= new Date(end)
InDateRange(req, range) ==
    /\ req.metadata.submittedAt >= range.start
    /\ req.metadata.submittedAt <= range.end

\* Mutant of filterRequests: the workflowId criterion is not applied.
filterRequestsNoWorkflow(reqs, filters) ==
    LET f0 == AllIndices(reqs)
        f1 == IF Has(filters, "dateRange")
              THEN SelectSeq(f0, LAMBDA i : InDateRange(reqs[i], filters.dateRange))
              ELSE f0
        f2 == IF TruthyStr(filters, "status")
              THEN SelectSeq(f1, LAMBDA i : reqs[i].metadata.status = filters.status)
              ELSE f1
        f3 == IF TruthyStr(filters, "requester")
              THEN SelectSeq(f2, LAMBDA i : reqs[i].requester = filters.requester)
              ELSE f2
    IN  f3

\* The four filter steps, each applied only when its criterion is truthy.
filterRequests(reqs, filters) ==
    LET f0 == AllIndices(reqs)
        f1 == IF Has(filters, "dateRange")
              THEN SelectSeq(f0, LAMBDA i : InDateRange(reqs[i], filters.dateRange))
              ELSE f0
        f2 == IF TruthyStr(filters, "status")
              THEN SelectSeq(f1, LAMBDA i : reqs[i].metadata.status = filters.status)
              ELSE f1
        f3 == IF TruthyStr(filters, "requester")
              THEN SelectSeq(f2, LAMBDA i : reqs[i].requester = filters.requester)
              ELSE f2
        f4 == IF TruthyStr(filters, "workflowId")
              THEN SelectSeq(f3, LAMBDA i : reqs[i].workflowId = filters.workflowId)
              ELSE f3
    IN  f4

\* filters.sortBy || 'submittedAt'
SortField(filters) ==
    IF TruthyStr(filters, "sortBy") THEN filters.sortBy ELSE "submittedAt"

\* filters.sortOrder || 'desc'
SortOrder(filters) ==
    IF TruthyStr(filters, "sortOrder") THEN filters.sortOrder ELSE "desc"

\* The sort fields that hold a Date: the names containing "At".
DateLike == {"submittedAt", "completedAt"}

Falsy(v) == v = Undef \/ v = 0

\* a.metadata[sortField] || a[sortField], then new Date(..) for a date-like name
SortValue(req, field) ==
    LET meta == IF field \in DOMAIN req.metadata THEN req.metadata[field] ELSE Undef
        own == IF field \in DOMAIN req THEN req[field] ELSE Undef
        raw == IF Falsy(meta) THEN own ELSE meta
    IN  IF field \in DateLike
        THEN (IF raw = Undef \/ raw = NoDate THEN Undef ELSE raw)
        ELSE raw

\* a > b and a < b of JavaScript: false when either side is undefined / NaN
Greater(a, b) == a # Undef /\ b # Undef /\ a > b
Less(a, b) == a # Undef /\ b # Undef /\ a < b

\* Mutant of Compare: the sort order is ignored, the comparator is always the
\* ascending one.
CompareAscendingOnly(a, b, field, order) ==
    IF Greater(SortValue(a, field), SortValue(b, field)) THEN 1 ELSE -1

\* The comparator passed to Array.prototype.sort.
Compare(a, b, field, order) ==
    LET aValue == SortValue(a, field)
        bValue == SortValue(b, field)
    IN  IF order = "asc"
        THEN (IF Greater(aValue, bValue) THEN 1 ELSE -1)
        ELSE (IF Less(aValue, bValue) THEN 1 ELSE -1)

\* Array.prototype.sort: every ordering the comparator accepts as sorted.  Where
\* the comparator answers -1 for both orders of a pair, the order of the pair
\* is left to the implementation.
SortOutcomes(reqs, ixs, filters) ==
    {p \in Perms(ixs) :
        \A i \in 1..(Len(p) - 1) :
            Compare(reqs[p[i]], reqs[p[i + 1]], SortField(filters), SortOrder(filters)) < 0}

\* if (filters.limit) filteredRequests = filteredRequests.slice(0, filters.limit)
limitRequests(ixs, filters) ==
    IF TruthyNum(filters, "limit")
    THEN (IF filters.limit >= 0
          THEN Take(ixs, filters.limit)
          ELSE SubSeq(ixs, 1, Len(ixs) + filters.limit))
    ELSE ixs

(***************************************************************************)
(* Relation Extractor: the forEach of getExportData.                       *)
(***************************************************************************)
\* request.metadata.<kind>.map(e => ({ ...e, requestId: request.id }))
TagEvents(req, kind) ==
    [k \in 1..Len(req.metadata[kind]) |->
        Merge([requestId |-> req.id], req.metadata[kind][k])]

\* Mutant of extractRelated: the events are taken from all requests of the
\* collection instead of the filtered ones.
extractRelatedFromAll(reqs, ixs, kind) ==
    Concat([n \in 1..Len(reqs) |-> TagEvents(reqs[n], kind)])

extractRelated(reqs, ixs, kind) ==
    Concat([n \in 1..Len(ixs) |-> TagEvents(reqs[ixs[n]], kind)])

\* this.approvalSystem.getStatistics(): owned by the request-management layer
getStatistics(reqs) == [total |-> Len(reqs)]

\* The object returned by getExportData for the sorted sequence chosen.
exportDataOf(reqs, sorted, filters) ==
    LET limited == limitRequests(sorted, filters)
    IN  [requests |-> limited,
         approvals |-> extractRelated(reqs, limited, "approvals"),
         rejections |-> extractRelated(reqs, limited, "rejections"),
         comments |-> extractRelated(reqs, limited, "comments"),
         statistics |-> getStatistics(reqs)]

NoFilters == [x \in {} |-> x]
NoData ==
    [requests |-> <<>>, approvals |-> <<>>, rejections |-> <<>>, comments |-> <<>>,
     statistics |-> [total |-> 0]]
NoCall == [op |-> "none", format |-> "", options |-> NoFilters]

\* options.filters || {}
FiltersOf(options) == IF Has(options, "filters") THEN options.filters ELSE NoFilters
NoResult == [content |-> [none |-> TRUE], mimeType |-> ""]
NoStages == [filtered |-> <<>>, sorted |-> <<>>, rendered |-> NoResult]
NoError == [kind |-> "none"]

BuiltinFormats == <<"csv", "json", "excel", "pdf", "xml">>

\* this.templates after initializeTemplates
BuiltinTemplates == [csv |-> "csv templates", json |-> "json templates", xml |-> "xml templates"]

\* The effect of the body of getExportData on the variables it computes.
Query(filters) ==
    \E sorted \in SortOutcomes(requests, filterRequests(requests, filters), filters) :
        /\ stages' = [filtered |-> filterRequests(requests, filters), sorted |-> sorted,
                       rendered |-> NoResult]
        /\ data' = exportDataOf(requests, sorted, filters)

\* A direct call of getExportData(options): the body runs without suspension.
GetExportData(filters) ==
    /\ pc = "idle"
    /\ Query(filters)
    /\ call' = [op |-> "getExportData", format |-> "", options |-> [filters |-> filters]]
    /\ pc' = "returned"
    /\ trace' = <<"getExportData">>
    /\ started' = requests
    /\ UNCHANGED <<requests, config, client, result, error>>

\* The caller takes the settled promise; the engine is idle again.
Settle ==
    /\ pc \in {"returned", "failed"}
    /\ pc' = "idle"
    /\ call' = NoCall
    /\ stages' = NoStages
    /\ data' = NoData
    /\ result' = NoResult
    /\ error' = NoError
    /\ trace' = <<>>
    /\ started' = <<>>
    /\ UNCHANGED <<requests, config, client>>

\* this.options after the constructor of ExportBuilder
NewBuilder == [filters |-> NoFilters, format |-> "json"]

\* null where a user object is expected
NoUser == [email |-> "", authorized |-> FALSE, timestamp |-> NoDate]

\* The AuthManager after its constructor on a browser without a stored
\* session.  stored is the item opm_user of localStorage, now is the clock in
\* hours, since is when the latest authenticate succeeded (NoDate after a
\* logout): it is kept for the properties and read by no operation.
NewSession == [currentUser |-> NoUser, stored |-> NoUser, now |-> 1, since |-> NoDate]

\* The RequestManager after its constructor: init() has called loadRequests,
\* which is suspended at `await this.loadFromGitHub()`.  stored is the item
\* opm_requests of localStorage (absent reads as '[]'), returned holds the ids
\* for which createRequest of this instance returned success.
NewManager == [requests |-> <<>>, stored |-> <<>>, load |-> "fetching", returned |-> <<>>]

\* The state after construction, for a given live collection.
InitWith(collection, libs) ==
    /\ requests = collection
    /\ exportFormats = BuiltinFormats
    /\ templates = BuiltinTemplates
    /\ libraries = libs
    /\ pc = "idle"
    /\ call = NoCall
    /\ stages = NoStages
    /\ data = NoData
    /\ result = NoResult
    /\ error = NoError
    /\ trace = <<>>
    /\ started = <<>>
    /\ builder = NewBuilder
    /\ chain = <<>>
    /\ handles = <<>>
    /\ manager = NewManager
    /\ session = NewSession

(***************************************************************************)
(* Specification of sorting and limiting: collections that differ in the   *)
(* submission times, queried with a date range, a sort order and a limit.  *)
(***************************************************************************)
SortRequest(i, t) ==
    Request(i, "alice", "wf1", Metadata("pending", t, NoDate, 1, i, 0, 0, 0))

SortCollections ==
    UNION {{[i \in 1..n |-> SortRequest(i, ts[i])] : ts \in [1..n -> 1..MaxTime]} :
           n \in 0..MaxRequests}

Optional(key, values) == {NoFilters} \cup {[k \in {key} |-> v] : v \in values}

SortOptions ==
    {Merge(Merge(d, o), Merge(l, [sortBy |-> "submittedAt"])) :
        d \in Optional("dateRange", {[start |-> 2, end |-> MaxTime]}),
        o \in Optional("sortOrder", {"asc", "desc"}),
        l \in Optional("limit", 0..MaxLimit)}

InitSort == \E c \in SortCollections : InitWith(c, {})

NextSort ==
    \/ \E f \in SortOptions : GetExportData(f)
    \/ Settle

SpecSort == InitSort /\ [][NextSort]_vars

(***************************************************************************)
(* Specification of filtering: collections that differ in every attribute  *)
(* a criterion reads, queried with every combination of the four criteria. *)
(***************************************************************************)
FilterTimes == {1, MaxTime}

FilterRequest(i, a) ==
    Request(i, a.requester, a.workflowId,
            Metadata(a.status, a.submittedAt,
                     IF a.status = "pending" THEN NoDate ELSE a.submittedAt + 1,
                     1, i, 0, 0, 0))

FilterAttributes ==
    [requester : Requesters, workflowId : Workflows, status : Statuses,
     submittedAt : FilterTimes]

FilterCollections ==
    UNION {{[i \in 1..n |-> FilterRequest(i, as[i])] : as \in [1..n -> FilterAttributes]} :
           n \in 0..MaxFilterRequests}

FilterOptions ==
    {Merge(Merge(d, s), Merge(r, w)) :
        d \in Optional("dateRange", {[start |-> t, end |-> t] : t \in FilterTimes}),
        s \in Optional("status", {"approved"}),
        r \in Optional("requester", {"alice"}),
        w \in Optional("workflowId", {"wf1"})}

InitFilter == \E c \in FilterCollections : InitWith(c, {})

NextFilter ==
    \/ \E f \in FilterOptions : GetExportData(f)
    \/ Settle

SpecFilter == InitFilter /\ [][NextFilter]_vars

(***************************************************************************)
(* Properties of the Query Engine.                                         *)
(***************************************************************************)
Queried == pc = "returned" /\ call.op = "getExportData"

Filters == FiltersOf(call.options)

Criteria == {"dateRange", "status", "requester", "workflowId"}

NoDuplicates(s) == \A i, j \in 1..Len(s) : i # j => s[i] # s[j]

\* The request satisfies each criterion the filters supply.
Satisfies(req, f) ==
    /\ Has(f, "dateRange") =>
           /\ f.dateRange.start <= req.metadata.submittedAt
           /\ req.metadata.submittedAt <= f.dateRange.end
    /\ Has(f, "status") => req.metadata.status = f.status
    /\ Has(f, "requester") => req.requester = f.requester
    /\ Has(f, "workflowId") => req.workflowId = f.workflowId

\* C2: the sequence getExportData returns holds only requests of the live
\* collection, each at most once, every one of them satisfies every criterion
\* supplied (dateRange, status, requester, workflowId), and with no criterion
\* and no limit supplied every request of the collection is returned.
C2_FilterSound ==
    Queried =>
        /\ Range(data.requests) \subseteq 1..Len(requests)
        /\ NoDuplicates(data.requests)
        /\ \A n \in 1..Len(data.requests) : Satisfies(requests[data.requests[n]], Filters)
        /\ (DOMAIN Filters \cap (Criteria \cup {"limit"}) = {}) =>
               Range(data.requests) = 1..Len(requests)

\* C2 witness: all four criteria are supplied, some request passes them and
\* some request is filtered out.
C2_Witness ==
    /\ Queried
    /\ Criteria \subseteq DOMAIN Filters
    /\ Len(data.requests) >= 1
    /\ Len(data.requests) < Len(requests)

\* C4 (as claimed): for every limit N >= 0 the returned sequence is the first
\* min(N, length) entries of the filtered and sorted sequence.
C4_LimitTruncates ==
    (Queried /\ Has(Filters, "limit") /\ Filters.limit >= 0) =>
        /\ Len(data.requests) <= Filters.limit
        /\ data.requests = Take(stages.sorted, Filters.limit)

DistinctTimes(reqs) ==
    \A i, j \in 1..Len(reqs) :
        i # j => reqs[i].metadata.submittedAt # reqs[j].metadata.submittedAt

\* The filters of the current call with the other sort order.
Flipped(f) ==
    Merge([sortOrder |-> IF SortOrder(f) = "asc" THEN "desc" ELSE "asc"], f)

StrictlyDecreasing(reqs, ixs) ==
    \A n \in 1..(Len(ixs) - 1) :
        reqs[ixs[n]].metadata.submittedAt > reqs[ixs[n + 1]].metadata.submittedAt

\* C5: on a collection with pairwise distinct submittedAt, sorted by
\* submittedAt without a limit, the sequence of one sort order is exactly the
\* reverse of the sequence the same filters give with the other sort order,
\* and the descending one is strictly decreasing in submittedAt.
C5_AscReversesDesc ==
    (/\ Queried
     /\ DistinctTimes(requests)
     /\ SortField(Filters) = "submittedAt"
     /\ ~Has(Filters, "limit")) =>
        LET other == SortOutcomes(requests, filterRequests(requests, Flipped(Filters)),
                                  Flipped(Filters))
        IN  /\ other # {}
            /\ \A s \in other :
                   exportDataOf(requests, s, Flipped(Filters)).requests =
                       Reverse(data.requests)
            /\ StrictlyDecreasing(requests,
                   IF SortOrder(Filters) = "asc"
                   THEN Reverse(data.requests) ELSE data.requests)

\* C5 witness: an ascending sort of three requests that were not submitted in
\* collection order.
C5_Witness ==
    /\ Queried
    /\ DistinctTimes(requests)
    /\ SortOrder(Filters) = "asc"
    /\ ~Has(Filters, "limit")
    /\ Len(data.requests) = 3
    /\ data.requests # AllIndices(requests)

(***************************************************************************)
(* Specification of the Relation Extractor: collections that differ in the *)
(* number of events each request owns, queried in both sort orders and     *)
(* with a limit.                                                           *)
(***************************************************************************)
ExtractRequest(i, e) ==
    Request(i, "alice", "wf1",
            Metadata("pending", i, NoDate, 1, i,
                     e, MaxEvents - e, (e + 1) % (MaxEvents + 1)))

ExtractCollections ==
    UNION {{[i \in 1..n |-> ExtractRequest(i, es[i])] : es \in [1..n -> 0..MaxEvents]} :
           n \in 0..MaxRequests}

ExtractOptions ==
    {Merge(o, l) :
        o \in {[sortOrder |-> "asc"], [sortOrder |-> "desc"]},
        l \in Optional("limit", 0..MaxLimit)}

InitExtract == \E c \in ExtractCollections : InitWith(c, {})

NextExtract ==
    \/ \E f \in ExtractOptions : GetExportData(f)
    \/ Settle

SpecExtract == InitExtract /\ [][NextExtract]_vars

EventKinds == {"approvals", "rejections", "comments"}

\* The number of events of the kind owned by the requests before position n.
RECURSIVE EventsBefore(_, _, _, _)
EventsBefore(reqs, ixs, kind, n) ==
    IF n <= 1 THEN 0
    ELSE EventsBefore(reqs, ixs, kind, n - 1) + Len(reqs[ixs[n - 1]].metadata[kind])

\* The extracted element is the event with requestId set to the owner's id.
IsTagged(out, event, owner) ==
    /\ DOMAIN out = DOMAIN event \cup {"requestId"}
    /\ out.requestId = owner.id
    /\ \A field \in DOMAIN event : out[field] = event[field]

\* C6: each extracted sequence is the concatenation, in the order of the
\* returned (post-limit) requests and then in the order inside the request, of
\* the events of those requests: the k-th event of the n-th returned request
\* is at position (events of the requests before n) + k, tagged with the id of
\* its request, and nothing else is in the sequence.
C6_ExtractIsConcat ==
    Queried =>
        \A kind \in EventKinds :
            LET ixs == data.requests
                out == data[kind]
            IN  /\ Len(out) = EventsBefore(requests, ixs, kind, Len(ixs) + 1)
                /\ \A n \in 1..Len(ixs) :
                       \A k \in 1..Len(requests[ixs[n]].metadata[kind]) :
                           IsTagged(out[EventsBefore(requests, ixs, kind, n) + k],
                                    requests[ixs[n]].metadata[kind][k],
                                    requests[ixs[n]])
                /\ \A j \in 1..Len(out) :
                       \E n \in 1..Len(ixs) : out[j].requestId = requests[ixs[n]].id

\* C6 witness: the limit cut a request off, the returned requests are not in
\* collection order, and a returned request owns two approvals.
C6_Witness ==
    /\ Queried
    /\ Len(data.requests) = 2
    /\ Len(data.requests) < Len(requests)
    /\ data.requests[1] > data.requests[2]
    /\ Len(requests[data.requests[2]].metadata.approvals) = 2
    /\ Len(data.approvals) >= 3
    /\ Len(data.comments) >= 1

(***************************************************************************)
(* Statistics Calculator: createSummary and its helpers.                   *)
(***************************************************************************)
\* An hour in milliseconds, the unit of a difference of two Dates.
Hour == 60 * 60 * 1000

\* Mutant of formatDuration: the hours shown after the days are all the
\* hours, not the remainder of the division by 24.
formatDurationAllHours(ms) ==
    LET seconds == ms \div 1000
        minutes == seconds \div 60
        hours == minutes \div 60
        days == hours \div 24
    IN  IF days > 0 THEN ToString(days) \o "d " \o ToString(hours) \o "h"
        ELSE IF hours > 0 THEN ToString(hours) \o "h " \o ToString(minutes % 60) \o "m"
        ELSE IF minutes > 0 THEN ToString(minutes) \o "m " \o ToString(seconds % 60) \o "s"
        ELSE ToString(seconds) \o "s"

\* formatDuration(ms); Math.floor of a quotient of non-negative numbers is \div
formatDuration(ms) ==
    LET seconds == ms \div 1000
        minutes == seconds \div 60
        hours == minutes \div 60
        days == hours \div 24
    IN  IF days > 0 THEN ToString(days) \o "d " \o ToString(hours % 24) \o "h"
        ELSE IF hours > 0 THEN ToString(hours) \o "h " \o ToString(minutes % 60) \o "m"
        ELSE IF minutes > 0 THEN ToString(minutes) \o "m " \o ToString(seconds % 60) \o "s"
        ELSE ToString(seconds) \o "s"

\* requests.filter(r => r.metadata.status === 'approved' && r.metadata.completedAt)
ApprovedCompleted(reqs, ixs) ==
    SelectSeq(ixs, LAMBDA i : /\ reqs[i].metadata.status = "approved"
                              /\ reqs[i].metadata.completedAt # NoDate)

\* approvedRequests.reduce((sum, req) => sum + (end - start), 0)
RECURSIVE TotalTime(_, _)
TotalTime(reqs, ixs) ==
    IF ixs = <<>> THEN 0
    ELSE (reqs[Head(ixs)].metadata.completedAt - reqs[Head(ixs)].metadata.submittedAt)
         + TotalTime(reqs, Tail(ixs))

\* Mutant of calculateAverageApprovalTime: the total is divided by the number
\* of all requests instead of the number of approved and completed ones.
calculateAverageOverAll(reqs, ixs) ==
    LET approved == ApprovedCompleted(reqs, ixs)
    IN  IF Len(approved) = 0 THEN "N/A"
        ELSE formatDuration(TotalTime(reqs, approved) \div Len(ixs))

\* The mean is a fraction in the code; formatDuration floors it to seconds, so
\* the integer quotient gives the same string.
calculateAverageApprovalTime(reqs, ixs) ==
    LET approved == ApprovedCompleted(reqs, ixs)
    IN  IF Len(approved) = 0 THEN "N/A"
        ELSE formatDuration(TotalTime(reqs, approved) \div Len(approved))

\* Object.keys of the counting object: the keys in order of first insertion.
RECURSIVE KeysInOrder(_)
KeysInOrder(values) ==
    IF values = <<>> THEN <<>>
    ELSE LET rest == KeysInOrder(SubSeq(values, 1, Len(values) - 1))
             last == values[Len(values)]
         IN  IF last \in Range(rest) THEN rest ELSE Append(rest, last)

CountOf(values, key) == Cardinality({i \in 1..Len(values) : values[i] = key})

\* Mutant of ReduceMax: the comparison is turned around.
RECURSIVE ReduceMin(_, _)
ReduceMin(values, keys) ==
    IF Len(keys) = 1 THEN keys[1]
    ELSE LET a == ReduceMin(values, SubSeq(keys, 1, Len(keys) - 1))
             b == keys[Len(keys)]
         IN  IF CountOf(values, a) < CountOf(values, b) THEN a ELSE b

\* Object.keys(counts).reduce((a, b) => counts[a] > counts[b] ? a : b)
RECURSIVE ReduceMax(_, _)
ReduceMax(values, keys) ==
    IF Len(keys) = 1 THEN keys[1]
    ELSE LET a == ReduceMax(values, SubSeq(keys, 1, Len(keys) - 1))
             b == keys[Len(keys)]
         IN  IF CountOf(values, a) > CountOf(values, b) THEN a ELSE b

getMostActiveRequester(reqs, ixs) ==
    LET values == [n \in 1..Len(ixs) |-> reqs[ixs[n]].requester]
    IN  IF Len(ixs) = 0 THEN "N/A" ELSE ReduceMax(values, KeysInOrder(values))

getMostCommonWorkflow(reqs, ixs) ==
    LET values == [n \in 1..Len(ixs) |-> reqs[ixs[n]].workflowId]
    IN  IF Len(ixs) = 0 THEN "N/A" ELSE ReduceMax(values, KeysInOrder(values))

CountStatus(reqs, ixs, status) ==
    Len(SelectSeq(ixs, LAMBDA i : reqs[i].metadata.status = status))

createSummary(reqs, d) ==
    [totalRequests |-> Len(d.requests),
     pendingRequests |-> CountStatus(reqs, d.requests, "pending"),
     approvedRequests |-> CountStatus(reqs, d.requests, "approved"),
     rejectedRequests |-> CountStatus(reqs, d.requests, "rejected"),
     totalApprovals |-> Len(d.approvals),
     totalRejections |-> Len(d.rejections),
     totalComments |-> Len(d.comments),
     avgApprovalTime |-> calculateAverageApprovalTime(reqs, d.requests),
     mostActiveRequester |-> getMostActiveRequester(reqs, d.requests),
     mostCommonWorkflow |-> getMostCommonWorkflow(reqs, d.requests)]

\* Mutant of createMinimalData: every request of the live collection is
\* projected, in collection order, instead of the filtered sequence.
createMinimalDataOfAll(reqs, d) ==
    [requests |->
        [n \in 1..Len(reqs) |->
            [id |-> reqs[n].id, requester |-> reqs[n].requester,
             subject |-> reqs[n].subject, status |-> reqs[n].metadata.status,
             submittedAt |-> reqs[n].metadata.submittedAt,
             workflow |-> reqs[n].workflowId]],
     summary |-> createSummary(reqs, d)]

\* createMinimalData(data)
createMinimalData(reqs, d) ==
    [requests |->
        [n \in 1..Len(d.requests) |->
            LET req == reqs[d.requests[n]]
            IN  [id |-> req.id, requester |-> req.requester, subject |-> req.subject,
                 status |-> req.metadata.status,
                 submittedAt |-> req.metadata.submittedAt,
                 workflow |-> req.workflowId]],
     summary |-> createSummary(reqs, d)]

(***************************************************************************)
(* Structured-data renderer: exportToJson and sanitizeRequest.             *)
(***************************************************************************)
\* delete obj.key
Without(obj, key) == [k \in DOMAIN obj \ {key} |-> obj[k]]

\* Date.prototype.toISOString
toISOString(t) == "iso-" \o ToString(t)

\* What sanitizeRequest leaves of the live request object: the copy is shallow,
\* so the two deletes act on the workflow and data objects of the live request.
sanitizeLive(request) ==
    LET r1 == IF Has(request, "workflow")
              THEN [request EXCEPT !.workflow = Without(request.workflow, "approvers")]
              ELSE request
        r2 == IF Has(r1, "data")
              THEN [r1 EXCEPT !.data = Without(r1.data, "sensitiveInfo")]
              ELSE r1
    IN  r2

\* Mutant of sanitizeRequest: the two deletes are left out.
sanitizeRequestKeeping(request) ==
    [request EXCEPT !.metadata =
        [k \in DOMAIN request.metadata |->
            IF k \in {"submittedAt", "completedAt"} /\ request.metadata[k] # NoDate
            THEN toISOString(request.metadata[k]) ELSE request.metadata[k]]]

\* The object sanitizeRequest returns: the shallow copy with a fresh metadata
\* object whose Date values are ISO strings.
sanitizeRequest(request) ==
    LET shallow == sanitizeLive(request)
        meta == shallow.metadata
    IN  [shallow EXCEPT !.metadata =
            [k \in DOMAIN meta |->
                IF k \in {"submittedAt", "completedAt"} /\ meta[k] # NoDate
                THEN toISOString(meta[k]) ELSE meta[k]]]

Failure(kind) == [error |-> [kind |-> kind], content |-> [none |-> TRUE], mimeType |-> ""]

Rendered(content, mimeType) ==
    [error |-> NoError, content |-> content, mimeType |-> mimeType]

\* exportToJson(data, options); the payload is kept as the value that is
\* stringified.
exportToJson(reqs, d, options) ==
    LET mode == IF Has(options, "mode") THEN options.mode ELSE "full"
    IN  IF mode \notin {"full", "summary", "minimal"} THEN Failure("MissingTemplate")
        ELSE Rendered(
                [json |->
                    CASE mode = "full" ->
                            [requests |-> [n \in 1..Len(d.requests) |->
                                              sanitizeRequest(reqs[d.requests[n]])],
                             approvals |-> d.approvals,
                             rejections |-> d.rejections,
                             comments |-> d.comments,
                             statistics |-> d.statistics]
                      [] mode = "summary" -> createSummary(reqs, d)
                      [] mode = "minimal" -> createMinimalData(reqs, d)],
                "application/json")

\* The live collection after exportToJson: in full mode sanitizeRequest has run
\* on every request of the filtered sequence.
liveAfterJson(reqs, d, options) ==
    LET mode == IF Has(options, "mode") THEN options.mode ELSE "full"
    IN  IF mode = "full"
        THEN [i \in 1..Len(reqs) |->
                IF i \in Range(d.requests) THEN sanitizeLive(reqs[i]) ELSE reqs[i]]
        ELSE reqs

(***************************************************************************)
(* Text.  A string the renderers escape is a sequence of characters.  The  *)
(* strings of the request records are atoms; Chars gives their characters. *)
(* An atom not listed has no character the escaping functions look for and *)
(* is kept as one token.                                                   *)
(***************************************************************************)
Quote == "\""
Newline == "\n"

WidgetPro == <<"W", "i", "d", "g", "e", "t", ",", " ", Quote, "P", "r", "o", Quote>>
AandBltC == <<"A", " ", "&", " ", "B", " ", "<", " ", "C">>

Chars(atom) ==
    CASE atom = "Widget, \"Pro\"" -> WidgetPro
      [] atom = "A & B < C" -> AandBltC
      [] atom = "O'Neil <admin>" ->
             <<"O", "'", "N", "e", "i", "l", " ", "<", "a", "d", "m", "i", "n", ">">>
      [] atom = "say \"hi\" & go" ->
             <<"s", "a", "y", " ", Quote, "h", "i", Quote, " ", "&", " ", "g", "o">>
      [] atom = "Doe, Jane" -> <<"D", "o", "e", ",", " ", "J", "a", "n", "e">>
      [] atom = "" -> <<>>
      [] OTHER -> <<atom>>

\* String.prototype.replace(/ch/g, rep) on a sequence of characters
ReplaceAll(str, ch, rep) ==
    Concat([i \in 1..Len(str) |-> IF str[i] = ch THEN rep ELSE <<str[i]>>])

\* Mutant of escapeCsv: the field is wrapped but its quotes are not doubled.
escapeCsvNoDoubling(str) ==
    IF \E i \in 1..Len(str) : str[i] \in {",", Quote, Newline}
    THEN <<Quote>> \o str \o <<Quote>>
    ELSE str

\* escapeCsv(str) for a string argument
escapeCsv(str) ==
    IF \E i \in 1..Len(str) : str[i] \in {",", Quote, Newline}
    THEN <<Quote>> \o ReplaceAll(str, Quote, <<Quote, Quote>>) \o <<Quote>>
    ELSE str

\* Mutant of escapeXml: the ampersand is replaced last, after the entities of
\* the other characters were produced.
escapeXmlAmpLast(str) ==
    ReplaceAll(ReplaceAll(ReplaceAll(ReplaceAll(ReplaceAll(str,
        "<", <<"&", "l", "t", ";">>),
        ">", <<"&", "g", "t", ";">>),
        Quote, <<"&", "q", "u", "o", "t", ";">>),
        "'", <<"&", "#", "3", "9", ";">>),
        "&", <<"&", "a", "m", "p", ";">>)

\* escapeXml(str) for a string argument: five replace calls, & first
escapeXml(str) ==
    ReplaceAll(ReplaceAll(ReplaceAll(ReplaceAll(ReplaceAll(str,
        "&", <<"&", "a", "m", "p", ";">>),
        "<", <<"&", "l", "t", ";">>),
        ">", <<"&", "g", "t", ";">>),
        Quote, <<"&", "q", "u", "o", "t", ";">>),
        "'", <<"&", "#", "3", "9", ";">>)

(***************************************************************************)
(* Structured-markup renderer.  objectToXml inspects the run-time type of  *)
(* each value, so its argument is the request as a tree of tagged values.  *)
(***************************************************************************)
\* The order of the keys of the objects of the model, as Object.entries
\* lists them.
KeyOrder ==
    <<"id", "requester", "subject", "workflowId", "workflow", "data", "metadata",
      "status", "submittedAt", "completedAt", "currentLevel",
      "approvals", "rejections", "comments",
      "approverId", "user", "type", "level", "approvedAt", "rejectedAt", "timestamp",
      "comment", "reason", "text", "requestId", "name", "approvers", "notes",
      "sensitiveInfo", "total">>

KeysOf(rec) == SelectSeq(KeyOrder, LAMBDA k : k \in DOMAIN rec)

\* The tagged tree of a record of the model: a Date (null when unset) under
\* the keys that hold one, a number, an array of event objects or of strings,
\* a nested object, and a string under every other key.
RECURSIVE ToJs(_)
ToJs(rec) ==
    [t |-> "obj",
     v |-> [n \in 1..Len(KeysOf(rec)) |->
        LET key == KeysOf(rec)[n]
            value == rec[key]
        IN  [key |-> key,
             value |->
                CASE key \in {"submittedAt", "completedAt", "approvedAt", "rejectedAt",
                              "timestamp"} ->
                        IF value = NoDate THEN [t |-> "null"] ELSE [t |-> "date", v |-> value]
                  [] key \in {"currentLevel", "level", "total"} -> [t |-> "num", v |-> value]
                  [] key \in {"approvals", "rejections", "comments"} ->
                        [t |-> "arr", v |-> [m \in 1..Len(value) |-> ToJs(value[m])]]
                  [] key \in {"metadata", "workflow", "data"} -> ToJs(value)
                  [] key = "approvers" ->
                        [t |-> "arr",
                         v |-> [m \in 1..Len(value) |-> [t |-> "text", v |-> Chars(value[m])]]]
                  [] OTHER -> [t |-> "text", v |-> Chars(value)]]]]

\* Object.entries(value): the entries of an object, the indexed elements of an
\* array, nothing for a Date
EntriesOf(value) ==
    CASE value.t = "obj" -> value.v
      [] value.t = "arr" -> [n \in 1..Len(value.v) |->
                                [key |-> ToString(n - 1), value |-> value.v[n]]]
      [] OTHER -> <<>>

\* typeof value === 'object'
TypeofObject == {"obj", "arr", "date", "null"}

XmlFailure == [err |-> TRUE, xml |-> <<>>]

OpenTag(name) == "<" \o name \o ">"
CloseTag(name) == "</" \o name \o ">"

\* <key>${this.escapeXml(value.toString())}</key>; toString of null throws
ScalarElement(name, value) ==
    IF value.t = "null" THEN XmlFailure
    ELSE [err |-> FALSE,
          xml |-> <<OpenTag(name)>>
                  \o escapeXml(IF value.t = "num" THEN <<ToString(value.v)>> ELSE value.v)
                  \o <<CloseTag(name)>>]

JoinXml(parts) ==
    [err |-> \E n \in 1..Len(parts) : parts[n].err,
     xml |-> Concat([n \in 1..Len(parts) |-> parts[n].xml])]

Wrap(name, inner) ==
    [err |-> inner.err, xml |-> <<OpenTag(name)>> \o inner.xml \o <<CloseTag(name)>>]

\* objectToXml(obj, tagName); Object.entries(null) throws
RECURSIVE objectToXml(_, _)
objectToXml(obj, tagName) ==
    IF obj.t = "null" THEN XmlFailure
    ELSE Wrap(tagName,
            JoinXml([n \in 1..Len(EntriesOf(obj)) |->
                LET key == EntriesOf(obj)[n].key
                    value == EntriesOf(obj)[n].value
                IN  IF value.t = "arr"
                    THEN Wrap(key,
                            JoinXml([m \in 1..Len(value.v) |->
                                IF value.v[m].t \in TypeofObject
                                THEN objectToXml(value.v[m], "item")
                                ELSE ScalarElement("item", value.v[m])]))
                    ELSE IF value.t \in TypeofObject /\ value.t # "null"
                    THEN objectToXml(value, key)
                    ELSE ScalarElement(key, value)]))

\* generateXml(items, rootTag, itemTag): the lines are joined with a newline
generateXml(items, rootTag, itemTag) ==
    LET parts == [n \in 1..Len(items) |-> objectToXml(items[n], itemTag)]
    IN  [err |-> \E n \in 1..Len(parts) : parts[n].err,
         xml |-> <<"<?xml?>", Newline, OpenTag(rootTag)>>
                 \o Concat([n \in 1..Len(parts) |-> <<Newline>> \o parts[n].xml])
                 \o <<Newline, CloseTag(rootTag)>>]

\* requestToXml(request): six escaped text fields, three numbers
requestToXml(request) ==
    <<Newline, OpenTag("request")>>
    \o <<OpenTag("id")>> \o escapeXml(Chars(request.id)) \o <<CloseTag("id")>>
    \o <<OpenTag("requester")>> \o escapeXml(Chars(request.requester))
    \o <<CloseTag("requester")>>
    \o <<OpenTag("subject")>> \o escapeXml(Chars(request.subject)) \o <<CloseTag("subject")>>
    \o <<OpenTag("workflowId")>> \o escapeXml(Chars(request.workflowId))
    \o <<CloseTag("workflowId")>>
    \o <<OpenTag("status")>> \o escapeXml(Chars(request.metadata.status))
    \o <<CloseTag("status")>>
    \o <<OpenTag("submittedAt")>>
    \o escapeXml(<<toISOString(request.metadata.submittedAt)>>)
    \o <<CloseTag("submittedAt")>>
    \o <<OpenTag("currentLevel"), ToString(request.metadata.currentLevel),
         CloseTag("currentLevel")>>
    \o <<OpenTag("approvals"), ToString(Len(request.metadata.approvals)),
         CloseTag("approvals")>>
    \o <<OpenTag("rejections"), ToString(Len(request.metadata.rejections)),
         CloseTag("rejections"), CloseTag("request")>>

\* generateFullXml(data)
generateFullXml(reqs, d) ==
    LET stats == objectToXml(ToJs(d.statistics), "stat")
    IN  [err |-> stats.err,
         xml |-> <<"<?xml?>", Newline, OpenTag("approvalSystemExport"), Newline,
                   OpenTag("exportInfo"), Newline,
                   OpenTag("exportDate"), "now", CloseTag("exportDate"), Newline,
                   OpenTag("recordCount"), ToString(Len(d.requests)),
                   CloseTag("recordCount"), Newline,
                   CloseTag("exportInfo"), Newline, OpenTag("requests")>>
                 \o Concat([n \in 1..Len(d.requests) |->
                               <<Newline>> \o requestToXml(reqs[d.requests[n]])])
                 \o <<Newline, CloseTag("requests"), Newline, OpenTag("statistics"), Newline>>
                 \o stats.xml
                 \o <<Newline, CloseTag("statistics"), Newline,
                      CloseTag("approvalSystemExport")>>]

\* exportToXml(data, options)
exportToXml(reqs, d, options) ==
    LET includeAll == Has(options, "includeAll") /\ options.includeAll
        out == IF includeAll
               THEN generateFullXml(reqs, d)
               ELSE generateXml([n \in 1..Len(d.requests) |-> ToJs(reqs[d.requests[n]])],
                                "requests", "request")
    IN  IF out.err THEN Failure("TypeError")
        ELSE Rendered([text |-> out.xml], "application/xml")

(***************************************************************************)
(* Delimited-text renderer.  A cell is a sequence of characters; the cells *)
(* of a row are joined with a comma, the rows with a newline.              *)
(***************************************************************************)
\* formatDate(date): '' for a falsy date, else the locale's rendering of the
\* date, kept as one token
formatDate(date) == IF date = NoDate THEN <<>> ELSE <<"date-" \o ToString(date)>>

\* Array.prototype.join on sequences of characters
RECURSIVE Join(_, _)
Join(parts, sep) ==
    IF parts = <<>> THEN <<>>
    ELSE IF Len(parts) = 1 THEN parts[1]
    ELSE parts[1] \o <<sep>> \o Join(Tail(parts), sep)

CsvSheets == {"requests", "approvals", "rejections", "comments"}

CsvHeaders(sheet) ==
    CASE sheet = "requests" ->
            <<"ID", "Requester", "Subject", "Status", "Created", "Completed", "Level",
              "Workflow">>
      [] sheet = "approvals" ->
            <<"Request ID", "Approver", "Level", "Decision", "Date", "Comment">>
      [] sheet = "rejections" ->
            <<"Request ID", "Rejector", "Level", "Decision", "Date", "Reason">>
      [] sheet = "comments" -> <<"Request ID", "User", "Type", "Date", "Comment">>

\* templates.csv.requests.mapper(request)
RequestCells(request) ==
    <<Chars(request.id), Chars(request.requester), escapeCsv(Chars(request.subject)),
      Chars(request.metadata.status),
      formatDate(request.metadata.submittedAt), formatDate(request.metadata.completedAt),
      <<ToString(request.metadata.currentLevel)>>, Chars(request.workflowId)>>

\* templates.csv.<sheet>.mapper(event, request) for the three event sheets;
\* request.id === event.requestId
EventCells(sheet, event) ==
    CASE sheet = "approvals" ->
            <<Chars(event.requestId), Chars(event.approverId), <<ToString(event.level)>>,
              <<"approved">>, formatDate(event.approvedAt), escapeCsv(Chars(event.comment))>>
      [] sheet = "rejections" ->
            <<Chars(event.requestId), Chars(event.approverId), <<ToString(event.level)>>,
              <<"rejected">>, formatDate(event.rejectedAt), escapeCsv(Chars(event.reason))>>
      [] sheet = "comments" ->
            <<Chars(event.requestId), Chars(event.user), Chars(event.type),
              formatDate(event.timestamp), escapeCsv(Chars(event.text))>>

CsvRows(reqs, d, sheet) ==
    IF sheet = "requests"
    THEN [n \in 1..Len(d.requests) |-> Join(RequestCells(reqs[d.requests[n]]), ",")]
    ELSE [n \in 1..Len(d[sheet]) |-> Join(EventCells(sheet, d[sheet][n]), ",")]

\* The property names every object literal inherits from Object.prototype.
ObjectPrototypeKeys ==
    {"constructor", "hasOwnProperty", "isPrototypeOf", "propertyIsEnumerable",
     "toLocaleString", "toString", "valueOf", "__proto__"}

\* exportToCsv(data, options).  this.templates.csv[sheet] is looked up along
\* the prototype chain: for an inherited name it is a function or an object
\* without headers, and template.headers.join throws a TypeError.
exportToCsv(reqs, d, options) ==
    LET sheet == IF Has(options, "sheet") THEN options.sheet ELSE "requests"
    IN  IF sheet \in ObjectPrototypeKeys THEN Failure("TypeError")
        ELSE IF sheet \notin CsvSheets THEN Failure("MissingTemplate")
        ELSE Rendered(
                [text |-> Join(<<Join([n \in 1..Len(CsvHeaders(sheet)) |->
                                          <<CsvHeaders(sheet)[n]>>], ",")>>
                               \o CsvRows(reqs, d, sheet),
                               Newline)],
                "text/csv")

(***************************************************************************)
(* Spreadsheet and document renderers.  The binary payload is produced by  *)
(* the external library; the model keeps what the engine feeds into it.    *)
(***************************************************************************)
PdfRows == 15

\* Mutant of exportToExcel: the workbook is built without testing that the
\* library is there.
exportToExcelUnchecked(reqs, d, libs) ==
    Rendered(
        [workbook |->
            <<[name |-> "Requests", rows |-> Len(d.requests)],
              [name |-> "Approvals", rows |-> Len(d.approvals)],
              [name |-> "Rejections", rows |-> Len(d.rejections)],
              [name |-> "Summary", rows |-> createSummary(reqs, d)],
              [name |-> "Statistics", rows |-> d.statistics]>>],
        "application/vnd.openxmlformats-officedocument.spreadsheetml.sheet")

\* exportToExcel(data, options): the five worksheets and their data rows
exportToExcel(reqs, d, libs) ==
    IF "ExcelJS" \notin libs THEN Failure("MissingCapability")
    ELSE Rendered(
            [workbook |->
                <<[name |-> "Requests", rows |-> Len(d.requests)],
                  [name |-> "Approvals", rows |-> Len(d.approvals)],
                  [name |-> "Rejections", rows |-> Len(d.rejections)],
                  [name |-> "Summary", rows |-> createSummary(reqs, d)],
                  [name |-> "Statistics", rows |-> d.statistics]>>],
            "application/vnd.openxmlformats-officedocument.spreadsheetml.sheet")

\* str.substring(0, n)
Substring(str, n) == SubSeq(str, 1, IF n < Len(str) THEN n ELSE Len(str))

\* exportToPdf(data, options): the summary lines and the table of the first
\* requests
exportToPdf(reqs, d, libs) ==
    IF "jsPDF" \notin libs THEN Failure("MissingCapability")
    ELSE Rendered(
            [pdf |->
                [summary |-> createSummary(reqs, d),
                 table |->
                    [n \in 1..Len(Take(d.requests, PdfRows)) |->
                        LET req == reqs[d.requests[n]]
                        IN  <<Substring(req.id, 10) \o "...", req.requester,
                              IF Len(req.subject) > 30
                              THEN Substring(req.subject, 30) \o "..." ELSE req.subject,
                              req.metadata.status,
                              formatDate(req.metadata.submittedAt)>>]]],
            "application/pdf")

\* The calls into the external library that produced the rendered output:
\* none where the renderer failed.
LibraryCalls(out) ==
    IF Has(out.content, "workbook")
    THEN <<"new ExcelJS.Workbook", "addWorksheet", "addRow", "xlsx.writeBuffer">>
    ELSE IF Has(out.content, "pdf")
    THEN <<"new jsPDF", "doc.text", "doc.output">>
    ELSE <<>>

(***************************************************************************)
(* Export Orchestrator: exportData and addCustomFormat.                    *)
(***************************************************************************)
\* String.prototype.toLowerCase on the format names of the model
ToLower(format) ==
    CASE format = "CSV" -> "csv"
      [] format = "Json" -> "json"
      [] format = "YAML" -> "yaml"
      [] OTHER -> format

\* Mutant of IsSupported: the validation lets every format name through.
IsSupportedAlways(formats, format) == TRUE

\* this.exportFormats.includes(format.toLowerCase())
IsSupported(formats, format) == ToLower(format) \in Range(formats)

\* The renderer the switch of exportData selects, "" in the default case.
RendererOf(format) ==
    CASE ToLower(format) = "csv" -> "exportToCsv"
      [] ToLower(format) = "json" -> "exportToJson"
      [] ToLower(format) = "excel" -> "exportToExcel"
      [] ToLower(format) = "pdf" -> "exportToPdf"
      [] ToLower(format) = "xml" -> "exportToXml"
      [] OTHER -> ""

\* The switch of exportData.
Render(reqs, d, format, options, libs) ==
    CASE RendererOf(format) = "exportToCsv" -> exportToCsv(reqs, d, options)
      [] RendererOf(format) = "exportToJson" -> exportToJson(reqs, d, options)
      [] RendererOf(format) = "exportToExcel" -> exportToExcel(reqs, d, libs)
      [] RendererOf(format) = "exportToPdf" -> exportToPdf(reqs, d, libs)
      [] RendererOf(format) = "exportToXml" -> exportToXml(reqs, d, options)
      [] OTHER -> Failure("NotImplemented")

\* exportResult.metadata = {...}; exportedAt is the clock and is left out
WithMetadata(rendered, format, options, d) ==
    [content |-> rendered.content, mimeType |-> rendered.mimeType,
     metadata |-> [format |-> format,
                   recordCount |-> Len(d.requests),
                   filters |-> FiltersOf(options),
                   generatedBy |-> "ApprovalSystem Export Module"]]

\* exportData(format, options) up to its first suspension: the validation,
\* then the body of getExportData, whose promise is awaited.
ExportData(format, options) ==
    /\ pc = "idle"
    /\ call' = [op |-> "exportData", format |-> format, options |-> options]
    /\ IF ~IsSupported(exportFormats, format)
       THEN /\ pc' = "failed"
            /\ error' = [kind |-> "UnsupportedFormat", supported |-> exportFormats]
            /\ UNCHANGED <<stages, data, trace>>
       ELSE /\ Query(FiltersOf(options))
            /\ pc' = "awaitData"
            /\ trace' = <<"getExportData">>
            /\ UNCHANGED error
    /\ started' = requests
    /\ UNCHANGED <<requests, config, client, result>>

\* exportData resumes with the data: the switch runs the renderer.  A
\* synchronous renderer's result gets its metadata and is returned; the result
\* of an async renderer (exportToExcel, exportToPdf) is awaited.
ExportResume ==
    /\ pc = "awaitData"
    /\ LET renderer == RendererOf(call.format)
           out == Render(requests, data, call.format, call.options, libraries)
       IN  /\ trace' = IF renderer = "" THEN trace
                       ELSE Append(trace, renderer) \o LibraryCalls(out)
           /\ requests' = IF renderer = "exportToJson"
                          THEN liveAfterJson(requests, data, call.options)
                          ELSE requests
           /\ IF out.error # NoError
              THEN /\ pc' = "failed"
                   /\ error' = out.error
                   /\ UNCHANGED <<stages, result>>
              ELSE IF renderer \in {"exportToExcel", "exportToPdf"}
              THEN /\ pc' = "awaitRender"
                   /\ stages' = [stages EXCEPT !.rendered =
                                    [content |-> out.content, mimeType |-> out.mimeType]]
                   /\ UNCHANGED <<result, error>>
              ELSE /\ pc' = "returned"
                   /\ result' = WithMetadata(out, call.format, call.options, data)
                   /\ UNCHANGED <<stages, error>>
    /\ UNCHANGED <<config, client, call, data, started>>

\* The awaited renderer has settled: the metadata is attached and the result
\* returned.
ExportFinish ==
    /\ pc = "awaitRender"
    /\ pc' = "returned"
    /\ result' = WithMetadata(stages.rendered, call.format, call.options, data)
    /\ UNCHANGED <<requests, config, client, call, stages, data, error, trace, started>>

MaxCustomFormats == 1   \* formats registered at run time

\* Mutant of AddCustomFormat: the name is registered without the test that
\* it is new.
AddCustomFormatUnchecked(formatName, template) ==
    /\ pc = "idle"
    /\ Len(exportFormats) < Len(BuiltinFormats) + MaxCustomFormats
    /\ call' = [op |-> "addCustomFormat", format |-> formatName, options |-> NoFilters]
    /\ pc' = "returned"
    /\ exportFormats' = Append(exportFormats, formatName)
    /\ templates' = Merge([name \in {formatName} |-> template], templates)
    /\ UNCHANGED <<requests, libraries, client, stages, data, result, error, trace, started>>

\* addCustomFormat(formatName, template); the model registers at most
\* MaxCustomFormats names
AddCustomFormat(formatName, template) ==
    /\ pc = "idle"
    /\ \/ formatName \in Range(exportFormats)
       \/ Len(exportFormats) < Len(BuiltinFormats) + MaxCustomFormats
    /\ call' = [op |-> "addCustomFormat", format |-> formatName, options |-> NoFilters]
    /\ IF formatName \in Range(exportFormats)
       THEN /\ pc' = "failed"
            /\ error' = [kind |-> "DuplicateFormat"]
            /\ UNCHANGED <<exportFormats, templates>>
       ELSE /\ pc' = "returned"
            /\ exportFormats' = Append(exportFormats, formatName)
            /\ templates' = Merge([name \in {formatName} |-> template], templates)
            /\ UNCHANGED error
    /\ UNCHANGED <<requests, libraries, client, stages, data, result, trace, started>>

(***************************************************************************)
(* Specification of the orchestrator: collections with and without the     *)
(* workflow / data sub-objects, exported in every format and mode, with    *)
(* and without the rendering libraries and run-time formats.               *)
(***************************************************************************)
MaxExportRequests == 2   \* requests in a collection that is exported

\* The optional sub-objects of a request.
Guarded(request) ==
    Merge(request,
          [workflow |-> [name |-> "two-step", approvers |-> <<"carol", "dave">>],
           data |-> [notes |-> "n", sensitiveInfo |-> "secret"]])

ExportRequest(i, variant) ==
    CASE variant = "plain-pending" ->
            Request(i, "alice", "wf1", Metadata("pending", i, NoDate, 1, i, 1, 0, 1))
      [] variant = "guarded-approved" ->
            Guarded(Request(i, "bob", "wf1",
                            Metadata("approved", i, i + 1, 2, i, 1, 0, 1)))
      [] variant = "guarded-pending" ->
            Guarded(Request(i, "bob", "wf2", Metadata("pending", i, NoDate, 1, i, 0, 1, 0)))

ExportCollections ==
    UNION {{[i \in 1..n |-> ExportRequest(i, vs[i])] : vs \in [1..n -> {"plain-pending", "guarded-approved", "guarded-pending"}]} :
           n \in 0..MaxExportRequests}

ExportOptions ==
    {Merge(m, f) :
        m \in Optional("mode", {"summary", "nope"}) \cup {[includeAll |-> TRUE]},
        f \in Optional("filters", {[status |-> "approved"]})}
    \cup {[mode |-> "minimal"], [sheet |-> "comments"], [sheet |-> "nope"]}

\* A window with any of the two rendering libraries.
Browsers == {{"window"} \cup libs : libs \in SUBSET {"ExcelJS", "jsPDF"}}

InitExport ==
    \E c \in ExportCollections, libs \in Browsers : InitWith(c, libs)

NextExport ==
    \/ \E format \in Range(BuiltinFormats) \cup {"bogus", "CSV", "yaml", "YAML"},
          options \in ExportOptions :
           ExportData(format, options)
    \/ ExportResume
    \/ ExportFinish
    \/ \E name \in {"yaml", "YAML", "csv"} : AddCustomFormat(name, "custom templates")
    \/ Settle

SpecExport == InitExport /\ [][NextExport]_vars

(***************************************************************************)
(* Properties of the orchestrator.                                         *)
(***************************************************************************)
InExport == call.op = "exportData"

\* The call was rejected by the validation and nothing else ran.
Rejected ==
    /\ pc = "failed"
    /\ error.kind = "UnsupportedFormat"
    /\ error.supported = exportFormats
    /\ trace = <<>>
    /\ stages = NoStages
    /\ data = NoData
    /\ result = NoResult

C3_SourceUnchanged == [][requests' = requests]_vars

(***************************************************************************)
(* Specification of the Statistics Calculator: collections that differ in  *)
(* status and approval duration, and collections that differ in requester  *)
(* and workflow, exported in the summary and minimal modes.                *)
(***************************************************************************)
MaxStatRequests == 3    \* requests in a collection that differs in status and duration
MaxDuration == 2        \* approval durations are 2, 4, .. 2 * MaxDuration hours
MaxCountRequests == 4   \* requests in a collection that differs in requester and workflow

\* duration NoDate: the request was not completed
DurationRequest(i, a) ==
    Request(i, "alice", "wf1",
            Metadata(a.status, i,
                     IF a.duration = NoDate THEN NoDate ELSE i + a.duration,
                     1, i, 0, 0, 0))

CountRequest(i, a) ==
    Request(i, a.requester, a.workflowId, Metadata("approved", i, i + Hour, 1, i, 0, 0, 0))

InitStats ==
    \/ \E n \in 0..MaxStatRequests :
           \E as \in [1..n -> [status : Statuses,
                               duration : {NoDate} \cup {2 * k * Hour : k \in 1..MaxDuration}]] :
               InitWith([i \in 1..n |-> DurationRequest(i, as[i])], {})
    \/ \E n \in 0..MaxCountRequests :
           \E as \in [1..n -> [requester : Requesters, workflowId : Workflows]] :
               InitWith([i \in 1..n |-> CountRequest(i, as[i])], {})

NextStats ==
    \/ \E mode \in {[mode |-> "summary"], [mode |-> "minimal"]},
          filters \in Optional("filters", {[status |-> "approved"]}) :
           ExportData("json", Merge(mode, filters))
    \/ ExportResume
    \/ Settle

SpecStats == InitStats /\ [][NextStats]_vars

(***************************************************************************)
(* Properties of the Statistics Calculator.                                *)
(***************************************************************************)
Summarised ==
    /\ InExport
    /\ pc = "returned"
    /\ Has(call.options, "mode")
    /\ call.options.mode \in {"summary", "minimal"}

\* The summary object of the returned payload.
Summary ==
    IF call.options.mode = "summary" THEN result.content.json
    ELSE result.content.json.summary

\* The positions of the record set whose request has the status.
WithStatus(status) ==
    {n \in 1..Len(data.requests) : requests[data.requests[n]].metadata.status = status}

\* The positions whose request is approved and has completedAt set.
Completed ==
    {n \in WithStatus("approved") : requests[data.requests[n]].metadata.completedAt # NoDate}

RECURSIVE SumOfDurations(_)
SumOfDurations(positions) ==
    IF positions = {} THEN 0
    ELSE LET n == CHOOSE m \in positions : TRUE
             meta == requests[data.requests[n]].metadata
         IN  (meta.completedAt - meta.submittedAt) + SumOfDurations(positions \ {n})

\* C7: the summary reports the number of requests of the record set, the
\* number of them with status pending, approved and rejected (the three add up
\* to the total, every status being one of the three), and avgApprovalTime is
\* the formatted mean of completedAt - submittedAt over exactly the approved
\* requests with completedAt set, "N/A" if and only if there is none.
C7_SummaryCounts ==
    Summarised =>
        /\ Summary.totalRequests = Len(data.requests)
        /\ Summary.pendingRequests = Cardinality(WithStatus("pending"))
        /\ Summary.approvedRequests = Cardinality(WithStatus("approved"))
        /\ Summary.rejectedRequests = Cardinality(WithStatus("rejected"))
        /\ Summary.pendingRequests + Summary.approvedRequests + Summary.rejectedRequests
               = Summary.totalRequests
        /\ (Summary.avgApprovalTime = "N/A") <=> (Completed = {})
        /\ Completed # {} =>
               Summary.avgApprovalTime =
                   formatDuration(SumOfDurations(Completed) \div Cardinality(Completed))

\* C7 witness: approvals that took 2 and 4 hours and one pending request give
\* "3h 0m" and one pending request.
C7_Witness ==
    /\ Summarised
    /\ Len(data.requests) = 3
    /\ Cardinality(Completed) = 2
    /\ SumOfDurations(Completed) = 6 * Hour
    /\ \E n \in Completed :
           requests[data.requests[n]].metadata.completedAt
               - requests[data.requests[n]].metadata.submittedAt = 2 * Hour
    /\ Summary.pendingRequests = 1
    /\ Summary.avgApprovalTime = "3h 0m"

\* The number of requests of the record set whose field has the value.
Occurrences(field, value) ==
    Cardinality({n \in 1..Len(data.requests) : requests[data.requests[n]][field] = value})

\* The value occurs in the record set and no value occurs more often.
IsMostFrequent(field, value) ==
    /\ Occurrences(field, value) >= 1
    /\ \A n \in 1..Len(data.requests) :
           Occurrences(field, value) >=
               Occurrences(field, requests[data.requests[n]][field])

MaxCsvLen == 4          \* characters of a string given to escapeCsv

Strings(alphabet, maxLen) == UNION {[1..n -> alphabet] : n \in 0..maxLen}

CsvStrings == Strings({"a", ",", Quote, Newline}, MaxCsvLen) \cup {WidgetPro}

\* A call of a utility function on a string: it returns at once.
CallUtility(op, str, out) ==
    /\ pc = "idle"
    /\ pc' = "returned"
    /\ call' = [op |-> op, format |-> "", options |-> [str |-> str]]
    /\ result' = [content |-> [text |-> out], mimeType |-> ""]
    /\ UNCHANGED <<requests, config, client, stages, data, error, trace, started>>

EscapeCsv(str) == CallUtility("escapeCsv", str, escapeCsv(str))

EscapeXml(str) == CallUtility("escapeXml", str, escapeXml(str))

InitText == InitWith(<<>>, {})

NextText ==
    \/ \E str \in CsvStrings : EscapeCsv(str)
    \/ Settle

SpecText == InitText /\ [][NextText]_vars

(***************************************************************************)
(* Properties of delimited-text escaping.                                  *)
(***************************************************************************)
Escaped(op) == pc = "returned" /\ call.op = op

CountChar(str, ch) == Cardinality({i \in 1..Len(str) : str[i] = ch})

\* A reader of a delimited cell: a pair of double quotes stands for one.
RECURSIVE Undouble(_)
Undouble(str) ==
    IF str = <<>> THEN <<>>
    ELSE IF Len(str) >= 2 /\ str[1] = Quote /\ str[2] = Quote
    THEN <<Quote>> \o Undouble(SubSeq(str, 3, Len(str)))
    ELSE <<str[1]>> \o Undouble(Tail(str))

\* A reader of a delimited cell: the wrapping quotes are taken off.
Unquote(cell) ==
    IF Len(cell) >= 2 /\ cell[1] = Quote /\ cell[Len(cell)] = Quote
    THEN Undouble(SubSeq(cell, 2, Len(cell) - 1))
    ELSE cell

\* C9: escapeCsv returns a string without comma, double quote and newline
\* unchanged; any other string is returned wrapped in double quotes with each
\* of its double quotes doubled (the text between the wrapping quotes is one
\* character longer per double quote of the input and reads back as the
\* input); un-quoting and un-doubling the result gives the input.
C9_EscapeCsvRoundTrip ==
    Escaped("escapeCsv") =>
        LET str == call.options.str
            out == result.content.text
            inner == SubSeq(out, 2, Len(out) - 1)
        IN  /\ (\A i \in 1..Len(str) : str[i] \notin {",", Quote, Newline}) => out = str
            /\ (\E i \in 1..Len(str) : str[i] \in {",", Quote, Newline}) =>
                   /\ Len(out) = Len(str) + CountChar(str, Quote) + 2
                   /\ out[1] = Quote
                   /\ out[Len(out)] = Quote
                   /\ CountChar(inner, Quote) = 2 * CountChar(str, Quote)
                   /\ Undouble(inner) = str
            /\ Unquote(out) = str

\* C9 witness: Widget, "Pro" was escaped to "Widget, ""Pro""".
C9_Witness ==
    /\ Escaped("escapeCsv")
    /\ call.options.str = WidgetPro
    /\ result.content.text =
           <<Quote, "W", "i", "d", "g", "e", "t", ",", " ",
             Quote, Quote, "P", "r", "o", Quote, Quote, Quote>>

(***************************************************************************)
(* Specification of structured-markup escaping: escapeXml applied to every *)
(* string of up to MaxXmlLen characters over an alphabet that holds the    *)
(* five characters it replaces, and XML exports, in both modes, of         *)
(* collections whose text fields hold those characters.                    *)
(***************************************************************************)
MaxXmlLen == 3          \* characters of a string given to escapeXml
MaxXmlRequests == 1     \* requests in a collection exported as XML

XmlStrings == Strings({"a", "&", "<", ">", Quote, "'"}, MaxXmlLen) \cup {AandBltC}

\* A request whose requester, subject and approval comment are the texts given.
XmlRequest(i, a) ==
    LET meta == Metadata(a.status, i, IF a.status = "pending" THEN NoDate ELSE i + 1,
                         1, i, 1, 0, 0)
    IN  [Request(i, a.requester, "wf1",
                 [meta EXCEPT !.approvals[1].comment = a.subject])
            EXCEPT !.subject = a.subject]

InitXml ==
    \E n \in 0..MaxXmlRequests :
        \E as \in [1..n -> [requester : {"alice", "O'Neil <admin>"},
                            subject : {"A & B < C", "say \"hi\" & go"},
                            status : {"pending", "approved"}]] :
            InitWith([i \in 1..n |-> XmlRequest(i, as[i])], {})

NextXml ==
    \/ \E str \in XmlStrings : EscapeXml(str)
    \/ \E options \in Optional("includeAll", {TRUE}) : ExportData("xml", options)
    \/ ExportResume
    \/ Settle

SpecXml == InitXml /\ [][NextXml]_vars

(***************************************************************************)
(* Properties of structured-markup escaping.                               *)
(***************************************************************************)
\* The five entities of XML text.
Amp == <<"&", "a", "m", "p", ";">>
Lt == <<"&", "l", "t", ";">>
Gt == <<"&", "g", "t", ";">>
Quot == <<"&", "q", "u", "o", "t", ";">>
Apos == <<"&", "#", "3", "9", ";">>

XmlEntities == {Amp, Lt, Gt, Quot, Apos}

\* The entity that stands for the character, the character itself if none.
EntityOf(ch) ==
    CASE ch = "&" -> Amp
      [] ch = "<" -> Lt
      [] ch = ">" -> Gt
      [] ch = Quote -> Quot
      [] ch = "'" -> Apos
      [] OTHER -> <<ch>>

\* The text with each character replaced by its entity, once.
Entities(str) == Concat([i \in 1..Len(str) |-> EntityOf(str[i])])

\* No character of the text is one of < > " '.
NoRawMarkup(text) == \A p \in 1..Len(text) : text[p] \notin {"<", ">", Quote, "'"}

\* Every & of the text starts an entity.
AmpsStartEntities(text) ==
    \A p \in 1..Len(text) :
        text[p] = "&" =>
            \E e \in XmlEntities :
                /\ p + Len(e) - 1 <= Len(text)
                /\ SubSeq(text, p, p + Len(e) - 1) = e

Occurs(part, text) ==
    \E p \in 1..(Len(text) - Len(part) + 1) : SubSeq(text, p, p + Len(part) - 1) = part

\* The element <name>text</name> with the text entity-escaped.
EscapedElement(name, atom) ==
    <<OpenTag(name)>> \o Entities(Chars(atom)) \o <<CloseTag(name)>>

XmlReturned == InExport /\ pc = "returned" /\ RendererOf(call.format) = "exportToXml"

\* C10: escapeXml returns its argument with every & < > " ' replaced by its
\* entity, once (the & of an entity is not escaped again): the result holds
\* none of < > " ' and each & in it starts one of the five entities.  In the
\* XML document of an export, in both modes, the same holds of all text
\* outside the tags, and the id, requester, subject, workflowId and status of
\* every exported request (and, where objectToXml renders it, the comment of
\* its approval) are there entity-escaped.
C10_XmlEscaped ==
    /\ Escaped("escapeXml") =>
           /\ result.content.text = Entities(call.options.str)
           /\ NoRawMarkup(result.content.text)
           /\ AmpsStartEntities(result.content.text)
    /\ XmlReturned =>
           LET doc == result.content.text
           IN  /\ NoRawMarkup(doc)
               /\ AmpsStartEntities(doc)
               /\ \A n \in 1..Len(data.requests) :
                      LET req == requests[data.requests[n]]
                      IN  /\ \A field \in {"id", "requester", "subject", "workflowId"} :
                                 Occurs(EscapedElement(field, req[field]), doc)
                          /\ Occurs(EscapedElement("status", req.metadata.status), doc)
                          /\ ~Has(call.options, "includeAll") =>
                                 Occurs(EscapedElement("comment",
                                            req.metadata.approvals[1].comment), doc)

\* C10 witness: an export in the mode that goes through objectToXml returned
\* a document where A & B < C is rendered as A &amp; B &lt; C.
C10_Witness ==
    /\ XmlReturned
    /\ ~Has(call.options, "includeAll")
    /\ Len(data.requests) >= 1
    /\ requests[data.requests[1]].requester = "O'Neil <admin>"
    /\ Occurs(<<OpenTag("subject"), "A", " ", "&", "a", "m", "p", ";", " ", "B", " ",
                "&", "l", "t", ";", " ", "C", CloseTag("subject")>>,
              result.content.text)

(***************************************************************************)
(* Properties of the minimal mode of the structured-data renderer.         *)
(***************************************************************************)
MinimalReturned == Summarised /\ call.options.mode = "minimal"

\* C11: the payload of JSON minimal mode has, for each request of the
\* filtered sequence and in the same order, a projection with exactly the
\* fields id, requester, subject, status (metadata.status), submittedAt
\* (metadata.submittedAt) and workflow (workflowId), and a summary whose
\* totalRequests is the number of projections.
C11_MinimalProjection ==
    MinimalReturned =>
        LET out == result.content.json
        IN  /\ DOMAIN out = {"requests", "summary"}
            /\ Len(out.requests) = Len(data.requests)
            /\ \A n \in 1..Len(data.requests) :
                   LET req == requests[data.requests[n]]
                       proj == out.requests[n]
                   IN  /\ DOMAIN proj = {"id", "requester", "subject", "status",
                                         "submittedAt", "workflow"}
                       /\ proj.id = req.id
                       /\ proj.requester = req.requester
                       /\ proj.subject = req.subject
                       /\ proj.status = req.metadata.status
                       /\ proj.submittedAt = req.metadata.submittedAt
                       /\ proj.workflow = req.workflowId
            /\ out.summary.totalRequests = Len(out.requests)

\* C11 witness: a minimal export of two requests that a status filter kept
\* out of three, in an order that is not the collection's.
C11_Witness ==
    /\ MinimalReturned
    /\ Has(call.options, "filters")
    /\ Len(requests) = 3
    /\ Len(result.content.json.requests) = 2
    /\ data.requests[1] > data.requests[2]
    /\ result.content.json.requests[1].id = requests[data.requests[1]].id

(***************************************************************************)
(* Properties of the full mode of the structured-data renderer.            *)
(***************************************************************************)
FullReturned ==
    /\ InExport
    /\ pc = "returned"
    /\ RendererOf(call.format) = "exportToJson"
    /\ ~Has(call.options, "mode")

\* The collection with the two sensitive sub-fields of every request that
\* has the workflow and data objects set to the values given.
WithSecrets(reqs, approvers, info) ==
    [i \in 1..Len(reqs) |->
        IF Has(reqs[i], "workflow") /\ Has(reqs[i], "data")
        THEN [reqs[i] EXCEPT
                !.workflow = Merge([approvers |-> approvers], @),
                !.data = Merge([sensitiveInfo |-> info], @)]
        ELSE reqs[i]]

\* C12: no request entry of a JSON full payload has workflow.approvers or
\* data.sensitiveInfo, and the entries are those of the export of any
\* snapshot that differs from this one only in the values of the two
\* sub-fields.
C12_SecretsStripped ==
    FullReturned =>
        LET out == result.content.json.requests
        IN  /\ \A n \in 1..Len(out) :
                   /\ Has(out[n], "workflow") => ~Has(out[n].workflow, "approvers")
                   /\ Has(out[n], "data") => ~Has(out[n].data, "sensitiveInfo")
            /\ \A approvers \in {<<"carol", "dave">>, <<"erin">>, <<>>},
                  info \in {"secret", "other"} :
                   exportToJson(WithSecrets(requests, approvers, info), data,
                                call.options).content.json.requests = out

\* C12 witness: a full export returned an entry of a request that has the
\* workflow and data objects; the entry kept their other fields.
C12_Witness ==
    /\ FullReturned
    /\ \E n \in 1..Len(result.content.json.requests) :
           LET entry == result.content.json.requests[n]
           IN  /\ Has(entry, "workflow")
               /\ entry.workflow = [name |-> "two-step"]
               /\ entry.data = [notes |-> "n"]

(***************************************************************************)
(* Properties of the spreadsheet and document renderers.                   *)
(***************************************************************************)
\* The library the renderer of the current call needs, "" if none.
NeededLibrary ==
    CASE RendererOf(call.format) = "exportToExcel" -> "ExcelJS"
      [] RendererOf(call.format) = "exportToPdf" -> "jsPDF"
      [] OTHER -> ""

\* The switch of the current exportData call has run.
Switched == InExport /\ IsSupported(exportFormats, call.format) /\ pc # "awaitData"

\* C13: an excel or pdf export whose library is not there fails with the
\* capability-missing error as the first thing its renderer does: after the
\* query, only the renderer was entered, no call into a library was made (no
\* workbook, sheet, row or page), nothing was rendered and no result returned.
C13_MissingCapability ==
    (Switched /\ NeededLibrary # "" /\ NeededLibrary \notin libraries) =>
        /\ pc = "failed"
        /\ error.kind = "MissingCapability"
        /\ trace = <<"getExportData", RendererOf(call.format)>>
        /\ stages.rendered = NoResult
        /\ result = NoResult

\* C13 witness: a pdf export failed for want of jsPDF although ExcelJS is
\* there and the query returned requests.
C13_Witness ==
    /\ Switched
    /\ RendererOf(call.format) = "exportToPdf"
    /\ libraries = {"window", "ExcelJS"}
    /\ Len(data.requests) >= 1
    /\ error.kind = "MissingCapability"

(***************************************************************************)
(* Properties of the formats registered at run time.                       *)
(***************************************************************************)
\* The format of the current exportData call was registered at run time.
CustomExport ==
    /\ InExport
    /\ call.format \in Range(exportFormats)
    /\ call.format \notin Range(BuiltinFormats)

\* C14 (as claimed): an exportData call with a format registered by
\* addCustomFormat passes the validation and does not fail: it returns a
\* result rendered with the registered template set.
C14_CustomFormatExports == CustomExport => pc # "failed"

\* C15: addCustomFormat with a name that is registered (built in or added
\* before) fails with DuplicateFormat and leaves the format list and the
\* template registry as they were; the format list never holds a name twice
\* and always holds csv, json, excel, pdf and xml.
C15_DuplicateRejected ==
    /\ [](/\ NoDuplicates(exportFormats)
          /\ Range(BuiltinFormats) \subseteq Range(exportFormats))
    /\ [][(/\ pc = "idle"
           /\ call'.op = "addCustomFormat"
           /\ call'.format \in Range(exportFormats)) =>
              /\ pc' = "failed"
              /\ error'.kind = "DuplicateFormat"
              /\ exportFormats' = exportFormats
              /\ templates' = templates]_vars

\* C15 witness: a name added at run time was given again and rejected.
C15_Witness ==
    /\ call.op = "addCustomFormat"
    /\ pc = "failed"
    /\ error.kind = "DuplicateFormat"
    /\ call.format \notin Range(BuiltinFormats)
    /\ call.format \in Range(exportFormats)
    /\ DOMAIN templates = DOMAIN BuiltinTemplates \cup {call.format}

(***************************************************************************)
(* The metadata envelope of exportData.                                    *)
(***************************************************************************)
\* What the renderer of the returned export produced.
RendererOutput == Render(requests, data, call.format, call.options, libraries)

\* The parts of the envelope other than the format name are as claimed.
EnvelopeAround ==
    /\ result.metadata.recordCount = Len(data.requests)
    /\ result.metadata.filters = FiltersOf(call.options)
    /\ result.metadata.generatedBy = "ApprovalSystem Export Module"
    /\ result.content = RendererOutput.content
    /\ result.mimeType = RendererOutput.mimeType

\* C16 (as claimed): a returned export carries metadata whose recordCount is
\* the length of the rendered request sequence, whose format is the resolved
\* (lower-case) supported format name, whose filters are options.filters (empty
\* when absent) and whose generator tag is fixed; the renderer's content and
\* media type are unchanged.
C16_MetadataEnvelope ==
    (InExport /\ pc = "returned") =>
        /\ EnvelopeAround
        /\ result.metadata.format = ToLower(call.format)

\* What the code does: the format of the envelope is the argument as given.
C16_FormatAsGiven ==
    (InExport /\ pc = "returned") =>
        /\ EnvelopeAround
        /\ result.metadata.format = call.format

(***************************************************************************)
(* Export Builder: the fluent configuration calls and execute().           *)
(***************************************************************************)
MaxChain == 3            \* configuration calls made on the builder

\* this.options.filters.<key> = value
SetFilter(options, key, value) ==
    [options EXCEPT !.filters = Merge([k \in {key} |-> value], options.filters)]

\* Mutant of Configure: a field that is set keeps its value.
ConfigureKeepingFirst(options, c) ==
    CASE c.method = "format" ->
            IF options.format = "json" THEN [options EXCEPT !.format = c.args[1]]
            ELSE options
      [] c.method = "filter" ->
            [options EXCEPT !.filters = Merge(options.filters, c.args[1])]
      [] c.method = "dateRange" ->
            [options EXCEPT !.filters =
                Merge(options.filters, [dateRange |-> [start |-> c.args[1], end |-> c.args[2]]])]
      [] c.method = "status" ->
            [options EXCEPT !.filters = Merge(options.filters, [status |-> c.args[1]])]
      [] c.method = "requester" ->
            [options EXCEPT !.filters = Merge(options.filters, [requester |-> c.args[1]])]
      [] c.method = "workflow" ->
            [options EXCEPT !.filters = Merge(options.filters, [workflowId |-> c.args[1]])]
      [] c.method = "sortBy" ->
            [options EXCEPT !.filters =
                Merge(options.filters,
                      [sortBy |-> c.args[1],
                       sortOrder |-> IF Len(c.args) > 1 THEN c.args[2] ELSE "desc"])]
      [] c.method = "limit" ->
            [options EXCEPT !.filters = Merge(options.filters, [limit |-> c.args[1]])]

\* The configuration methods of ExportBuilder: this.options after the call
\* c.method(c.args) on a builder whose options are `options`.
Configure(options, c) ==
    CASE c.method = "format" -> [options EXCEPT !.format = c.args[1]]
      [] c.method = "filter" ->
            [options EXCEPT !.filters = Merge(c.args[1], options.filters)]
      [] c.method = "dateRange" ->
            SetFilter(options, "dateRange", [start |-> c.args[1], end |-> c.args[2]])
      [] c.method = "status" -> SetFilter(options, "status", c.args[1])
      [] c.method = "requester" -> SetFilter(options, "requester", c.args[1])
      [] c.method = "workflow" -> SetFilter(options, "workflowId", c.args[1])
      [] c.method = "sortBy" ->
            SetFilter(SetFilter(options, "sortBy", c.args[1]),
                      "sortOrder", IF Len(c.args) > 1 THEN c.args[2] ELSE "desc")
      [] c.method = "limit" -> SetFilter(options, "limit", c.args[1])

\* One configuration call: the options are updated and `this` is returned.
BuilderCall(c) ==
    /\ pc = "idle"
    /\ Len(chain) < MaxChain
    /\ builder' = Configure(builder, c)
    /\ chain' = Append(chain, [method |-> c.method, args |-> c.args, returned |-> "this"])
    /\ UNCHANGED <<requests, config, handles, pc, call, stages, data, result, error, trace,
                   started, manager, session>>

\* execute(): exportData(this.options.format, this.options)
Execute == ExportData(builder.format, builder)

(***************************************************************************)
(* Specification of the builder: chains of configuration calls, each       *)
(* followed by any number of execute() calls on a fixed collection.        *)
(***************************************************************************)
BuilderCalls ==
    {[method |-> "format", args |-> <<f>>] : f \in {"csv", "xml"}}
    \cup {[method |-> "filter", args |-> <<f>>] :
            f \in {[status |-> "approved"], [status |-> "pending", limit |-> 1]}}
    \cup {[method |-> "dateRange", args |-> <<1, 2>>]}
    \cup {[method |-> "status", args |-> <<"rejected">>]}
    \cup {[method |-> "requester", args |-> <<"alice">>]}
    \cup {[method |-> "workflow", args |-> <<"wf1">>]}
    \cup {[method |-> "sortBy", args |-> a] : a \in {<<"submittedAt">>, <<"currentLevel", "asc">>}}
    \cup {[method |-> "limit", args |-> <<2>>]}

InitBuilder ==
    InitWith(<<ExportRequest(1, "plain-pending"), ExportRequest(2, "guarded-approved")>>, {})

NextBuilder ==
    \/ \E c \in BuilderCalls : BuilderCall(c)
    \/ Execute
    \/ ExportResume
    \/ Settle

SpecBuilder == InitBuilder /\ [][NextBuilder]_vars

\* The format and the filter fields the call c gives a value to.
Given(c) ==
    CASE c.method = "format" -> [format |-> c.args[1]]
      [] c.method = "filter" -> c.args[1]
      [] c.method = "dateRange" -> [dateRange |-> [start |-> c.args[1], end |-> c.args[2]]]
      [] c.method = "status" -> [status |-> c.args[1]]
      [] c.method = "requester" -> [requester |-> c.args[1]]
      [] c.method = "workflow" -> [workflowId |-> c.args[1]]
      [] c.method = "sortBy" ->
            [sortBy |-> c.args[1],
             sortOrder |-> IF Len(c.args) > 1 THEN c.args[2] ELSE "desc"]
      [] c.method = "limit" -> [limit |-> c.args[1]]

\* The calls of the chain that set the field, by position.
Setters(field) == {i \in 1..Len(chain) : field \in DOMAIN Given(chain[i])}

LastSetter(field) == CHOOSE i \in Setters(field) : \A j \in Setters(field) : j <= i

\* The fields some call of the chain has set, the format apart.
FieldsSet == {field \in UNION {DOMAIN Given(chain[i]) : i \in 1..Len(chain)} : field # "format"}

\* Every field holds what the last call that set it gave, a field never set
\* is absent, and the format is json until a format() call.
LastWriteWins(options) ==
    /\ options.format =
          IF Setters("format") = {} THEN "json"
          ELSE Given(chain[LastSetter("format")]).format
    /\ DOMAIN options.filters = FieldsSet
    /\ \A field \in FieldsSet :
          options.filters[field] = Given(chain[LastSetter(field)])[field]

\* Two further calls that set different fields give the same options in
\* either order.  The builder changes between calls of the engine only, so the
\* options met there are all the options there are.
Commute ==
    pc = "idle" =>
    \A a, b \in BuilderCalls :
        DOMAIN Given(a) \cap DOMAIN Given(b) = {} =>
            Configure(Configure(builder, a), b) = Configure(Configure(builder, b), a)

\* C17: after any chain of configuration calls the builder's options hold,
\* for the format and for every filter field, the value of the last call that
\* set it (json when no format() call was made; a field never set is absent);
\* execute() calls exportData with that format and those filters; calls that
\* set different fields commute and every call returns the builder itself.
C17_BuilderLastWriteWins ==
    /\ LastWriteWins(builder)
    /\ Commute
    /\ \A i \in 1..Len(chain) : chain[i].returned = "this"
    /\ InExport => /\ call.format = builder.format
                   /\ FiltersOf(call.options) = builder.filters
                   /\ LastWriteWins(call.options)

\* C17 witness: an export ran for a chain that set the status twice, with
\* different values, and the format once.
C17_Witness ==
    /\ InExport
    /\ pc = "returned"
    /\ Len(chain) = 3
    /\ Cardinality(Setters("status")) = 2
    /\ \E i \in Setters("status") : Given(chain[i]).status # call.options.filters.status
    /\ call.format = "csv"

(***************************************************************************)
(* Saving: saveToFile and the builder's download().                        *)
(***************************************************************************)
MaxSaves == 2            \* saveToFile calls that reach the browser

\* typeof window !== 'undefined'
HasWindow(libs) == "window" \in libs

\* window.URL.createObjectURL(blob): the new handle is the next in the list
createObjectURL(urls) == Append(urls, "live")

\* window.URL.revokeObjectURL(url)
revokeObjectURL(urls, url) == [urls EXCEPT ![url] = "revoked"]

\* The object URLs after saveToFile: one created and revoked around the click
\* when autoDownload is set, then one created for the returned object.
handlesAfterSave(urls, autoDownload) ==
    LET clicked == IF autoDownload
                   THEN revokeObjectURL(createObjectURL(urls), Len(urls) + 1)
                   ELSE urls
    IN  createObjectURL(clicked)

\* saveToFile(exportResult, {autoDownload}) on the result of the export that
\* has just returned; download() calls it with the result of execute().
SaveToFile(autoDownload) ==
    /\ pc = "returned"
    /\ InExport
    /\ Len(handles) < 2 * MaxSaves
    /\ call' = [op |-> "saveToFile", format |-> call.format,
                options |-> [autoDownload |-> autoDownload]]
    /\ IF ~HasWindow(libraries)
       THEN /\ pc' = "failed"
            /\ error' = [kind |-> "BrowserOnly"]
            /\ UNCHANGED <<handles, result, trace>>
       ELSE /\ pc' = "returned"
            /\ handles' = handlesAfterSave(handles, autoDownload)
            /\ result' = [blob |-> [content |-> result.content, type |-> result.mimeType],
                          url |-> Len(handles'),
                          mimeType |-> result.mimeType]
            /\ trace' = trace
                        \o (IF autoDownload
                            THEN <<"createObjectURL", "click", "revokeObjectURL">>
                            ELSE <<>>)
                        \o <<"createObjectURL">>
            /\ UNCHANGED error
    /\ UNCHANGED <<requests, config, builder, chain, stages, data, started, manager,
                   session>>

(***************************************************************************)
(* Specification of download(): a builder set to csv or excel, executed    *)
(* and saved, with and without a window.                                   *)
(***************************************************************************)
InitDownload ==
    \E n \in 0..1, libs \in {{}, {"window"}, {"window", "ExcelJS"}} :
        InitWith([i \in 1..n |-> ExportRequest(i, "plain-pending")], libs)

NextDownload ==
    \/ \E f \in {"csv", "excel"} : BuilderCall([method |-> "format", args |-> <<f>>])
    \/ Execute
    \/ ExportResume
    \/ ExportFinish
    \/ \E autoDownload \in BOOLEAN : SaveToFile(autoDownload)
    \/ Settle

SpecDownload == InitDownload /\ [][NextDownload]_vars

InSave == call.op = "saveToFile"

\* C18 (as claimed): when saveToFile / download() has returned or thrown, every
\* object URL acquired so far has been released.
C18_HandlesReleased ==
    (InSave /\ pc \in {"returned", "failed"}) =>
        \A url \in 1..Len(handles) : handles[url] = "revoked"

\* What the code does: every saveToFile that returns leaves the object URL
\* of its result live, and only the one around the click is revoked.
C18_ResultUrlLive ==
    (InSave /\ pc = "returned") =>
        /\ handles[result.url] = "live"
        /\ call.options.autoDownload => handles[result.url - 1] = "revoked"

(***************************************************************************)
(* Two exports in flight.  exportData awaits the promise of getExportData, *)
(* so the call is suspended between the query and the switch; a call made  *)
(* earlier and suspended at the same await resumes first.                  *)
(***************************************************************************)
\* An exportData('json', {}) call made before the current one resumes while
\* the current one is suspended: exportToJson runs in full mode over the whole
\* collection.  Its result goes to its own caller.
OtherExportResume ==
    /\ pc = "awaitData"
    /\ requests' = liveAfterJson(requests, [requests |-> AllIndices(requests)], NoFilters)
    /\ requests' # requests
    /\ UNCHANGED <<config, client, pc, call, stages, data, result, error, trace, started>>

InitConcurrent == \E c \in ExportCollections : InitWith(c, {})

NextConcurrent ==
    \/ \E format \in {"csv", "json", "xml"},
          options \in {NoFilters, [includeAll |-> TRUE], [filters |-> [status |-> "approved"]]} :
           ExportData(format, options)
    \/ OtherExportResume
    \/ ExportResume
    \/ Settle

SpecConcurrent == InitConcurrent /\ [][NextConcurrent]_vars

\* C19 (as claimed): nothing runs between the query and the rendering of a
\* csv, json or xml export, so the payload returned is the rendering of the
\* records as they were when the call began.
C19_PayloadOfStart ==
    (InExport /\ pc = "returned") =>
        result.content = Render(started, data, call.format, call.options, libraries).content

(***************************************************************************)
(* Specification of the CSV sheets: csv exports of collections with events *)
(* of every kind, for each sheet name and for names without a template.    *)
(***************************************************************************)
SheetNames == CsvSheets \cup {"nope", "", "constructor", "toString"}

InitCsv == \E c \in ExportCollections : InitWith(c, {})

NextCsv ==
    \/ \E options \in {NoFilters, [filters |-> [limit |-> 1]]}
                      \cup {[sheet |-> name] : name \in SheetNames} :
           ExportData("csv", options)
    \/ ExportResume
    \/ Settle

SpecCsv == InitCsv /\ [][NextCsv]_vars

\* The sheet the current csv export is asked for.
SheetAsked == IF Has(call.options, "sheet") THEN call.options.sheet ELSE "requests"

CsvDone == InExport /\ call.format = "csv" /\ pc \in {"returned", "failed"}

\* The items of the category, in the order of the extracted data.
SheetItems == IF SheetAsked = "requests" THEN data.requests ELSE data[SheetAsked]

\* The lines of a text: the tokens between the newlines.
RECURSIVE Lines(_)
Lines(text) ==
    IF \A n \in 1..Len(text) : text[n] # Newline THEN <<text>>
    ELSE LET first == CHOOSE n \in 1..Len(text) :
                        text[n] = Newline /\ \A m \in 1..(n - 1) : text[m] # Newline
         IN  <<SubSeq(text, 1, first - 1)>> \o Lines(SubSeq(text, first + 1, Len(text)))

\* The id in the first cell of a row.
FirstCell(line) ==
    IF \A n \in 1..Len(line) : line[n] # "," THEN line
    ELSE SubSeq(line, 1, (CHOOSE n \in 1..Len(line) :
                            line[n] = "," /\ \A m \in 1..(n - 1) : line[m] # ",") - 1)

\* The payload is the header row followed by one row per item, in order.
HeaderAndRows ==
    LET lines == Lines(result.content.text)
    IN  /\ pc = "returned"
        /\ Len(lines) = 1 + Len(SheetItems)
        /\ lines[1] = Join([n \in 1..Len(CsvHeaders(SheetAsked)) |->
                              <<CsvHeaders(SheetAsked)[n]>>], ",")
        /\ \A n \in 1..Len(SheetItems) :
              FirstCell(lines[n + 1]) =
                 Chars(IF SheetAsked = "requests" THEN requests[SheetItems[n]].id
                       ELSE SheetItems[n].requestId)

NoPayload(kind) == pc = "failed" /\ error.kind = kind /\ result = NoResult

\* C20 (as claimed): a csv export asked for a sheet other than requests,
\* approvals, rejections and comments fails with MissingTemplate and returns
\* no payload; for the four sheets (requests when none is named) the payload is
\* the header row followed by one row per item of the category, in the order
\* of the extracted data.
C20_SheetSelection ==
    CsvDone =>
        IF SheetAsked \in CsvSheets THEN HeaderAndRows ELSE NoPayload("MissingTemplate")

\* What the code does: a sheet named like a property every object inherits
\* fails with a TypeError instead; all other names are as claimed.
C20_InheritedNames ==
    CsvDone =>
        IF SheetAsked \in CsvSheets THEN HeaderAndRows
        ELSE IF SheetAsked \in ObjectPrototypeKeys THEN NoPayload("TypeError")
        ELSE NoPayload("MissingTemplate")

(***************************************************************************)
(* Specification of the CSV cells: csv exports of requests whose requester *)
(* and subject hold a comma or double quotes.                              *)
(***************************************************************************)
MaxCellRequests == 2     \* requests in a collection exported for its cells

InitCells ==
    \E n \in 1..MaxCellRequests :
        \E as \in [1..n -> [requester : {"alice", "Doe, Jane"},
                            subject : {"subject", "Widget, \"Pro\""},
                            status : {"approved"}]] :
            InitWith([i \in 1..n |-> XmlRequest(i, as[i])], {})

NextCells ==
    \/ \E options \in Optional("sheet", {"requests", "approvals"}) : ExportData("csv", options)
    \/ ExportResume
    \/ Settle

SpecCells == InitCells /\ [][NextCells]_vars

\* A reader of a delimited row: the commas outside quotes separate the cells.
Separators(line) ==
    {n \in 1..Len(line) :
        /\ line[n] = ","
        /\ Cardinality({m \in 1..(n - 1) : line[m] = Quote}) % 2 = 0}

CsvReturned == CsvDone /\ pc = "returned"

\* C21 (as claimed): every data row of a csv payload reads back as exactly as
\* many cells as the header has columns, whatever field holds a comma or a
\* double quote.
C21_RowsParse ==
    CsvReturned =>
        LET lines == Lines(result.content.text)
        IN  \A n \in 2..Len(lines) :
                Cardinality(Separators(lines[n])) + 1 = Len(CsvHeaders(SheetAsked))

\* What the code does: the rows of the requests whose requester has no comma
\* read back with the cells of the header; only the free-text columns
\* (subject, comment) are escaped.
C21_FreeTextEscaped ==
    CsvReturned =>
        LET lines == Lines(result.content.text)
        IN  \A n \in 2..Len(lines) :
                requests[data.requests[n - 1]].requester = "alice" =>
                    Cardinality(Separators(lines[n])) + 1 = Len(CsvHeaders(SheetAsked))

(***************************************************************************)
(* Properties of the XML serializer on unset fields.                       *)
(***************************************************************************)
XmlDone == InExport /\ RendererOf(call.format) = "exportToXml" /\ pc \in {"returned", "failed"}

\* C22 (as claimed): the default XML export returns a payload and raises no
\* error, also for a snapshot with a pending request whose completedAt is
\* present but unset.
C22_XmlOfUnsetFields == (XmlDone /\ ~Has(call.options, "includeAll")) => pc = "returned"

\* What the code does: the default XML export fails with a TypeError exactly
\* when a request of the filtered sequence has an unset completedAt; the
\* export with includeAll, which does not go through objectToXml, returns.
C22_TypeErrorOnNull ==
    XmlDone =>
        IF /\ ~Has(call.options, "includeAll")
           /\ \E n \in 1..Len(data.requests) :
                  requests[data.requests[n]].metadata.completedAt = NoDate
        THEN pc = "failed" /\ error.kind = "TypeError"
        ELSE pc = "returned"

(***************************************************************************)
(* Specification of the comparator: collections that differ in the current *)
(* level (0 included), sorted by it and by a field no request has.         *)
(***************************************************************************)
MaxLevelRequests == 3    \* requests in a collection sorted by level

InitCompare ==
    \E n \in 0..MaxLevelRequests :
        \E levels \in [1..n -> 0..2] :
            InitWith([i \in 1..n |->
                        Request(i, "alice", "wf1",
                                Metadata("pending", i, NoDate, levels[i], i, 0, 0, 0))],
                     {})

NextCompare ==
    \/ \E field \in {"currentLevel", "nope"}, order \in {"asc", "desc"} :
           GetExportData([sortBy |-> field, sortOrder |-> order])
    \/ Settle

SpecCompare == InitCompare /\ [][NextCompare]_vars

\* getExportData has returned the sequence sorted by the field, ascending.
SortedBy(field) ==
    /\ call.op = "getExportData"
    /\ pc = "returned"
    /\ call.options.filters.sortBy = field
    /\ call.options.filters.sortOrder = "asc"

LevelAt(n) == requests[data.requests[n]].metadata.currentLevel

\* C23 (as claimed): sorting by currentLevel ascending yields a sequence that
\* is non-decreasing in the level, also when some requests are at level 0.
C23_SortedByFalsyField ==
    SortedBy("currentLevel") =>
        \A n \in 1..(Len(data.requests) - 1) : LevelAt(n) <= LevelAt(n + 1)

\* What the code does: the sequence is non-decreasing when no request is at
\* level 0, the one value of the field that `||` takes for a missing one.
C23_SortedWithoutZero ==
    (SortedBy("currentLevel") /\ \A i \in 1..Len(requests) : requests[i].metadata.currentLevel # 0) =>
        \A n \in 1..(Len(data.requests) - 1) : LevelAt(n) <= LevelAt(n + 1)

\* C24 (as claimed): for two requests with equal sort keys, or with a sort
\* field neither has, the comparator returns 0 in both argument orders, and the
\* sorted sequence keeps their relative input order.
C24_TiesKeepOrder ==
    (call.op = "getExportData" /\ pc = "returned") =>
        LET field == SortField(call.options.filters)
            order == SortOrder(call.options.filters)
        IN  \A i, j \in 1..Len(requests) :
                (i # j /\ SortValue(requests[i], field) = SortValue(requests[j], field)) =>
                    /\ Compare(requests[i], requests[j], field, order) = 0
                    /\ Compare(requests[j], requests[i], field, order) = 0
                    /\ \A m, n \in 1..Len(data.requests) :
                          (data.requests[m] = i /\ data.requests[n] = j /\ i < j) => m < n

\* The order part of C24 alone: requests with equal keys keep their input
\* order.
C24_StableOrder ==
    (call.op = "getExportData" /\ pc = "returned") =>
        \A m, n \in 1..Len(data.requests) :
            (/\ data.requests[m] < data.requests[n]
             /\ SortValue(requests[data.requests[m]], SortField(call.options.filters))
                  = SortValue(requests[data.requests[n]], SortField(call.options.filters)))
            => m < n

(***************************************************************************)
(* Specification of formatDuration: durations on both sides of every unit  *)
(* boundary.                                                               *)
(***************************************************************************)
MaxDays == 2             \* whole days in a duration given to formatDuration

\* d days, h hours, m minutes, s seconds and r milliseconds
Milliseconds(d, h, m, s, r) == (((d * 24 + h) * 60 + m) * 60 + s) * 1000 + r

FormatDuration(ms) == CallUtility("formatDuration", ms, formatDuration(ms))

InitDuration == InitWith(<<>>, {})

NextDuration ==
    \/ \E d \in 0..MaxDays, h \in {0, 1, 23}, m \in {0, 1, 59}, s \in {0, 1, 59},
          r \in {0, 999} :
           FormatDuration(Milliseconds(d, h, m, s, r))
    \/ Settle

SpecDuration == InitDuration /\ [][NextDuration]_vars

\* The whole units of a duration: each is what is left of the duration after
\* the coarser units, cut to whole units.
DaysOf(ms) == ms \div Milliseconds(1, 0, 0, 0, 0)
HoursOf(ms) == (ms % Milliseconds(1, 0, 0, 0, 0)) \div Milliseconds(0, 1, 0, 0, 0)
MinutesOf(ms) == (ms % Milliseconds(0, 1, 0, 0, 0)) \div Milliseconds(0, 0, 1, 0, 0)
SecondsOf(ms) == (ms % Milliseconds(0, 0, 1, 0, 0)) \div Milliseconds(0, 0, 0, 1, 0)

Shown(coarse, unit, fine, unitOfFine) ==
    ToString(coarse) \o unit \o " " \o ToString(fine) \o unitOfFine

\* C25: formatDuration returns the coarsest unit that applies with the unit
\* below it: "Dd Hh" (D >= 1, H in 0..23) from one day on, else "Hh Mm" (H in
\* 1..23, M in 0..59) from one hour on, else "Mm Ss" (M in 1..59, S in 0..59)
\* from one minute on, else "Ss" (S in 0..59); what is finer than the units
\* shown is cut off, never rounded up.
C25_CoarsestUnit ==
    Escaped("formatDuration") =>
        LET ms == call.options.str
            text == result.content.text
        IN  /\ HoursOf(ms) \in 0..23 /\ MinutesOf(ms) \in 0..59 /\ SecondsOf(ms) \in 0..59
            /\ IF DaysOf(ms) >= 1
               THEN /\ text = Shown(DaysOf(ms), "d", HoursOf(ms), "h")
                    /\ Milliseconds(DaysOf(ms), HoursOf(ms), 0, 0, 0) <= ms
                    /\ ms < Milliseconds(DaysOf(ms), HoursOf(ms) + 1, 0, 0, 0)
               ELSE IF HoursOf(ms) >= 1
               THEN /\ text = Shown(HoursOf(ms), "h", MinutesOf(ms), "m")
                    /\ Milliseconds(0, HoursOf(ms), MinutesOf(ms), 0, 0) <= ms
                    /\ ms < Milliseconds(0, HoursOf(ms), MinutesOf(ms) + 1, 0, 0)
               ELSE IF MinutesOf(ms) >= 1
               THEN /\ text = Shown(MinutesOf(ms), "m", SecondsOf(ms), "s")
                    /\ Milliseconds(0, 0, MinutesOf(ms), SecondsOf(ms), 0) <= ms
                    /\ ms < Milliseconds(0, 0, MinutesOf(ms), SecondsOf(ms) + 1, 0)
               ELSE /\ text = ToString(SecondsOf(ms)) \o "s"
                    /\ Milliseconds(0, 0, 0, SecondsOf(ms), 0) <= ms
                    /\ ms < Milliseconds(0, 0, 0, SecondsOf(ms) + 1, 0)

\* C25 witness: one millisecond short of two days is shown as 1d 23h.
C25_Witness ==
    /\ Escaped("formatDuration")
    /\ call.options.str = Milliseconds(1, 23, 59, 59, 999)
    /\ result.content.text = "1d 23h"

(***************************************************************************)
(* Specification of the document table: pdf exports of requests whose id   *)
(* and subject are shorter than, as long as and longer than the caps.      *)
(***************************************************************************)
MaxPdfRequests == 2      \* requests in a collection exported as a document

PdfRequest(i, a) ==
    [Request(i, "alice", "wf1", Metadata("pending", i, NoDate, 1, i, 0, 0, 0))
        EXCEPT !.id = a.id \o ToString(i), !.subject = a.subject]

InitPdf ==
    \E n \in 0..MaxPdfRequests :
        \E as \in [1..n -> [id : {"r", "request-0", "request-00"},
                            subject : {"subject",
                                       "thirty characters in a subject",
                                       "thirty-one characters of a text"}]] :
            InitWith([i \in 1..n |-> PdfRequest(i, as[i])], {"window", "jsPDF"})

NextPdf ==
    \/ \E options \in Optional("filters", {[limit |-> 1]}) : ExportData("pdf", options)
    \/ ExportResume
    \/ ExportFinish
    \/ Settle

SpecPdf == InitPdf /\ [][NextPdf]_vars

PdfReturned == InExport /\ RendererOf(call.format) = "exportToPdf" /\ pc = "returned"

\* The text cut to the cap and followed by an ellipsis when it is longer than
\* the cap, unchanged otherwise.
Elided(str, cap) == IF Len(str) > cap THEN SubSeq(str, 1, cap) \o "..." ELSE str

\* The table has a row for each of the first 15 requests of the filtered
\* sequence, in its order, with the subject elided past 30 characters.
PdfTable(idAlwaysElided) ==
    LET table == result.content.pdf.table
    IN  /\ Len(table) = (IF Len(data.requests) < 15 THEN Len(data.requests) ELSE 15)
        /\ \A n \in 1..Len(table) :
              LET req == requests[data.requests[n]]
              IN  /\ table[n][1] = IF idAlwaysElided
                                    THEN Substring(req.id, 10) \o "..."
                                    ELSE Elided(req.id, 10)
                  /\ table[n][2] = req.requester
                  /\ table[n][3] = Elided(req.subject, 30)

\* C26 (as claimed): the document table holds the first 15 requests of the
\* filtered sequence in order; the id is elided only when longer than 10
\* characters and the subject only when longer than 30, and a field no longer
\* than its cap is rendered unchanged.
C26_PdfElision == PdfReturned => PdfTable(FALSE)

\* What the code does: the id cell always ends with the ellipsis, after at
\* most 10 characters of the id; the rest is as claimed.
C26_IdAlwaysElided == PdfReturned => PdfTable(TRUE)

(***************************************************************************)
(* The session of the portal (class AuthManager).  Times are whole hours.  *)
(***************************************************************************)
SessionHours == 24      \* a stored session is loaded while it is younger than this

AuthorizedUsers == {"kasangakidoryn@gmail.com"}

Emails == AuthorizedUsers \cup {"intruder@example.com"}

\* checkAuthorization(email), for an email in lower case without blanks
checkAuthorization(email) ==
    IF email \in AuthorizedUsers
    THEN [email |-> email, authorized |-> TRUE, timestamp |-> NoDate]
    ELSE NoUser

\* The session after loadUserFromStorage(): a stored session younger than 24
\* hours becomes the current user, an older one is removed, and without a
\* stored session nothing is assigned.
loadUserFromStorage(s) ==
    IF s.stored # NoUser /\ s.stored.authorized
    THEN IF s.now - s.stored.timestamp < SessionHours
         THEN [s EXCEPT !.currentUser = s.stored]
         ELSE [s EXCEPT !.stored = NoUser, !.currentUser = NoUser]
    ELSE s

\* The session after getCurrentUser(), which returns its currentUser.
getCurrentUser(s) == IF s.currentUser = NoUser THEN loadUserFromStorage(s) ELSE s

\* user && user.authorized === true
isAuthenticated(s) ==
    IF getCurrentUser(s).currentUser = NoUser THEN "null"
    ELSE IF getCurrentUser(s).currentUser.authorized THEN "true" ELSE "false"

\* The session after authenticate(email)
authenticate(s, email) ==
    IF checkAuthorization(email) # NoUser
    THEN [s EXCEPT !.stored = [checkAuthorization(email) EXCEPT !.timestamp = s.now],
                   !.currentUser = checkAuthorization(email),
                   !.since = s.now]
    ELSE s

\* A call on the AuthManager: it returns at once.
CallSession(op, arg, after, value) ==
    /\ pc = "idle"
    /\ pc' = "returned"
    /\ call' = [op |-> op, format |-> "", options |-> [str |-> arg]]
    /\ session' = after
    /\ result' = [content |-> [text |-> value], mimeType |-> ""]
    /\ UNCHANGED <<requests, config, builder, chain, handles, manager, stages, data, error,
                   trace, started>>

Authenticate(email) ==
    CallSession("authenticate", email, authenticate(session, email),
                IF checkAuthorization(email) # NoUser THEN "success" ELSE "denied")

GetCurrentUser ==
    CallSession("getCurrentUser", "", getCurrentUser(session),
                getCurrentUser(session).currentUser.email)

IsAuthenticated ==
    CallSession("isAuthenticated", "", getCurrentUser(session), isAuthenticated(session))

\* logout(): the stored session and the current user are cleared.
Logout ==
    CallSession("logout", "",
                [session EXCEPT !.stored = NoUser, !.currentUser = NoUser, !.since = NoDate],
                "undefined")

\* A page of the portal is loaded: the scripts construct a new AuthManager,
\* which loads the stored session, and a new RequestManager, whose init()
\* starts loadRequests.
PageLoad ==
    /\ pc = "idle"
    /\ session' = loadUserFromStorage([session EXCEPT !.currentUser = NoUser])
    /\ manager' = [NewManager EXCEPT !.stored = manager.stored]
    /\ UNCHANGED <<requests, config, builder, chain, handles, pc, call, stages, data, result,
                   error, trace, started>>

MaxClock == 26          \* hours on the clock

\* h hours pass between two calls.
Tick(h) ==
    /\ pc = "idle"
    /\ session.now + h <= MaxClock
    /\ session' = [session EXCEPT !.now = @ + h]
    /\ UNCHANGED <<requests, config, builder, chain, handles, manager, pc, call, stages,
                   data, result, error, trace, started>>

(***************************************************************************)
(* The request store of the portal (class RequestManager).                 *)
(***************************************************************************)
MaxCreated == 2         \* requests in this.requests

StaffEmails == {"ceasaratiku@gmail.com"}

\* What Math.floor(Math.random() * 9000 + 1000) can yield: both ends of the range.
RandomParts == {1000, 9999}

\* generateRequestId(): REQ-<date>-<random>; the date is the day of the clock.
generateRequestId(now, random) == [date |-> now \div 24, random |-> random]

\* What loadFromGitHub() resolves to: null (404, network or JSON failure), or
\* the parsed file; a file without `requests` is treated as null by the caller.
GitHubFiles ==
    {[found |-> FALSE, requests |-> <<>>],
     [found |-> TRUE, requests |-> <<>>],
     [found |-> TRUE,
      requests |-> <<[id |-> generateRequestId(0, 5000), status |-> "approved"]>>]}

\* loadRequests resumes after `await this.loadFromGitHub()`: this.requests is
\* assigned the requests of the file, else the parsed localStorage item.
LoadResume(githubData) ==
    /\ manager.load = "fetching"
    /\ manager' = [manager EXCEPT
                     !.requests = IF githubData.found THEN githubData.requests
                                  ELSE manager.stored,
                     !.load = "done"]
    /\ UNCHANGED <<requests, config, builder, chain, handles, session, pc, call, stages,
                   data, result, error, trace, started>>

\* getRequestById(requestId): the position of the first request with that id, 0 for null
getRequestById(list, requestId) ==
    IF \E i \in 1..Len(list) : list[i].id = requestId
    THEN CHOOSE i \in 1..Len(list) :
             /\ list[i].id = requestId
             /\ \A j \in 1..(i - 1) : list[j].id # requestId
    ELSE 0

\* A call on the RequestManager: its awaits are of promises that are already
\* settled, so it runs to its return before any other task.
CallManager(op, arg, after, value) ==
    /\ pc = "idle"
    /\ pc' = "returned"
    /\ call' = [op |-> op, format |-> "", options |-> [str |-> arg]]
    /\ manager' = after
    /\ result' = [content |-> [text |-> value], mimeType |-> ""]
    /\ UNCHANGED <<requests, config, builder, chain, handles, stages, data, error, trace,
                   started>>

\* The manager after a createRequest that passed its checks: the request is
\* pushed and saveRequests writes this.requests to localStorage.
pushRequest(m, requestId) ==
    [m EXCEPT !.requests = Append(m.requests, [id |-> requestId, status |-> "pending"]),
              !.stored = Append(m.requests, [id |-> requestId, status |-> "pending"]),
              !.returned = Append(m.returned, requestId)]

\* createRequest({staffEmail, ...}) with the given outcome of Math.random
CreateRequest(staffEmail, random) ==
    /\ Len(manager.requests) < MaxCreated
    /\ session' = getCurrentUser(session)
    /\ IF getCurrentUser(session).currentUser.authorized /\ staffEmail \in StaffEmails
       THEN CallManager("createRequest", staffEmail,
                        pushRequest(manager, generateRequestId(session.now, random)),
                        "success")
       ELSE CallManager("createRequest", staffEmail, manager, "failure")

\* updateRequestStatus(requestId, status, approverInfo)
UpdateRequestStatus(requestId, status) ==
    /\ UNCHANGED session
    /\ IF getRequestById(manager.requests, requestId) = 0
       THEN CallManager("updateRequestStatus", status, manager, "failure")
       ELSE CallManager("updateRequestStatus", status,
                        [manager EXCEPT
                           !.requests[getRequestById(manager.requests, requestId)].status =
                               status,
                           !.stored =
                               [manager.requests EXCEPT
                                  ![getRequestById(manager.requests, requestId)].status =
                                      status]],
                        "success")

InitManager == InitWith(<<>>, {})

NextManager ==
    \/ PageLoad
    \/ \E f \in GitHubFiles : LoadResume(f)
    \/ \E email \in Emails : Authenticate(email)
    \/ \E staffEmail \in StaffEmails \cup {"nobody@example.com"}, random \in RandomParts :
           CreateRequest(staffEmail, random)
    \/ \E random \in RandomParts, status \in {"approved", "rejected"} :
           UpdateRequestStatus(generateRequestId(session.now, random), status)
    \/ Settle

SpecManager == InitManager /\ [][NextManager]_vars

\* C27: every request for which createRequest of this RequestManager returned
\* success is in this.requests once the initial load has completed and no call
\* is running.
C27_CreatedNeverLost ==
    (manager.load = "done" /\ pc = "idle")
        => \A i \in 1..Len(manager.returned) :
               getRequestById(manager.requests, manager.returned[i]) # 0

\* C29: the ids of the requests in this.requests are pairwise distinct.
C29_IdsDistinct ==
    \A i, j \in 1..Len(manager.requests) :
        manager.requests[i].id = manager.requests[j].id => i = j

(***************************************************************************)
(* Specification of the session: sign-in, queries, logout and page loads   *)
(* over more than a day.                                                   *)
(***************************************************************************)
InitSession == InitWith(<<>>, {})

NextSession ==
    \/ \E email \in Emails : Authenticate(email)
    \/ GetCurrentUser
    \/ IsAuthenticated
    \/ Logout
    \/ PageLoad
    \/ \E h \in {1, 12} : Tick(h)
    \/ Settle

SpecSession == InitSession /\ [][NextSession]_vars

SaysAuthenticated ==
    pc = "returned" /\ call.op = "isAuthenticated" /\ result.content.text = "true"

\* C28: isAuthenticated() returns true only if the latest successful
\* authenticate happened less than 24 hours ago and no logout followed it.
C28_SessionExpires ==
    SaysAuthenticated
        => (session.since # NoDate /\ session.now - session.since < SessionHours)

\* What the code guarantees for C28: isAuthenticated() returns true only if no
\* logout followed the latest successful authenticate.
C28_SignedIn == SaysAuthenticated => session.since # NoDate

(***************************************************************************)
(* Specification of the monthly report (ExportExamples).  Dates are whole  *)
(* hours of a calendar of three months; hour 24 is the first hour of the   *)
(* first month.                                                            *)
(***************************************************************************)
MaxMonthlyRequests == 2 \* requests in the collection of a monthly report

\* The days of the months of the calendar: January to March.
DaysInMonth == <<31, 28, 31>>

RECURSIVE DaysBefore(_)
DaysBefore(month) == IF month <= 1 THEN 0 ELSE DaysBefore(month - 1) + DaysInMonth[month - 1]

\* new Date(year, month, day) at midnight local time, plus the hours: day 0 is
\* the last day of the month before.
DateOf(month, day, hour) == (DaysBefore(month) + day) * 24 + hour

\* getMonth() of a date
MonthOf(t) ==
    CHOOSE month \in 1..Len(DaysInMonth) :
        DateOf(month, 1, 0) <= t /\ t < DateOf(month + 1, 1, 0)

\* `Monthly Approval Report - ${now.toLocaleString(...)}`
MonthlyTitle(month) == "Monthly Approval Report - " \o ToString(month)

\* The options generateMonthlyReport builds from now = new Date()
monthlyOptions(now) ==
    [title |-> MonthlyTitle(MonthOf(now)),
     filters |-> [dateRange |-> [start |-> DateOf(MonthOf(now), 1, 0),
                                 end |-> DateOf(MonthOf(now) + 1, 0, 0)],
                  sortBy |-> "submittedAt",
                  sortOrder |-> "desc"]]

\* generateMonthlyReport(approvalSystem) called at the time now, up to the
\* first suspension of its exportData.
GenerateMonthlyReport(now) ==
    /\ exportFormats = BuiltinFormats
    /\ templates = BuiltinTemplates
    /\ ExportData("excel", monthlyOptions(now))

MonthlyRequest(i, t) ==
    Request(i, "alice", "wf1", Metadata("pending", t, NoDate, 1, i, 0, 0, 0))

\* Submission times on both sides of the two ends of February.
MonthlyTimes ==
    {DateOf(1, 31, 23), DateOf(2, 1, 0), DateOf(2, 14, 12), DateOf(2, 28, 0),
     DateOf(2, 28, 1), DateOf(2, 28, 23), DateOf(3, 1, 0)}

InitMonthly ==
    \E n \in 0..MaxMonthlyRequests :
        \E ts \in [1..n -> MonthlyTimes] :
            InitWith([i \in 1..n |-> MonthlyRequest(i, ts[i])], {"window", "ExcelJS"})

NextMonthly ==
    \/ \E now \in {DateOf(2, 1, 0), DateOf(2, 28, 17)} : GenerateMonthlyReport(now)
    \/ ExportResume
    \/ ExportFinish
    \/ Settle

SpecMonthly == InitMonthly /\ [][NextMonthly]_vars

\* The report of the given month has returned.
MonthlyReturned(month) ==
    InExport /\ pc = "returned" /\ call.options.title = MonthlyTitle(month)

\* C30: the monthly report holds exactly the requests submitted between the
\* first instant of the first day and the last instant of the last day of the
\* current month.
C30_ExactlyTheMonth ==
    \A month \in 1..Len(DaysInMonth) :
        MonthlyReturned(month)
            => \A i \in 1..Len(requests) :
                   i \in Range(data.requests)
                       <=> MonthOf(requests[i].metadata.submittedAt) = month

\* What the code guarantees for C30: the report holds exactly the requests
\* submitted from the first instant of the month to midnight at the start of
\* its last day.
C30_UpToLastMidnight ==
    \A month \in 1..Len(DaysInMonth) :
        MonthlyReturned(month)
            => \A i \in 1..Len(requests) :
                   i \in Range(data.requests)
                       <=> /\ DateOf(month, 1, 0) <= requests[i].metadata.submittedAt
                           /\ requests[i].metadata.submittedAt
                                  <= DateOf(month, DaysInMonth[month], 0)

====
